---- MODULE Spec2Model ----
(***************************************************************************)
(* Lifecycle controller of the ESP32 smart plug: restart counter with      *)
(* debounce timer, post-reset reason kept in RTC memory, and the three     *)
(* deliberate-reboot sequences (update, HomeKit reset, factory reset).     *)
(*                                                                         *)
(* The main task walks through app_main and the sequences one blocking     *)
(* call at a time (pc); the esp_timer callback and the resets of the CPU   *)
(* interleave with it.  Every call into NVS, the partition API or the OTA  *)
(* API may fail: the failure is an input of the action that makes it.      *)
(***************************************************************************)
EXTENDS Bags, FiniteSets, Integers, Sequences, TLC

\* ------------------------------------------------------------------ constants

\* 32-bit words are kept as two 16-bit halves, [hi, lo]: TLC's integers end
\* below 2^31
U32(n) == [hi |-> n \div 65536, lo |-> n % 65536]

U32Gt(a, b) == a.hi > b.hi \/ (a.hi = b.hi /\ a.lo > b.lo)

U32Ge(a, b) == a = b \/ U32Gt(a, b)

\* a + 1 in 32 bits
U32Inc(a) ==
    IF a.lo = 65535 THEN [hi |-> (a.hi + 1) % 65536, lo |-> 0]
    ELSE [hi |-> a.hi, lo |-> a.lo + 1]

UINT32_MAX == [hi |-> 65535, lo |-> 65535]

\* 0xC0DEC0DE
k_post_reset_magic == [hi |-> 49374, lo |-> 49374]

LIFECYCLE_POST_RESET_NONE == 0

LIFECYCLE_POST_RESET_REASON_HOMEKIT == 1

LIFECYCLE_POST_RESET_REASON_FACTORY == 2

LIFECYCLE_POST_RESET_REASON_UPDATE == 3

\* the literal 10U of the crash-loop check
RestartThreshold == 10

\* first value of the countdown loop variable i
CountdownFrom == 10

\* ---------------------------------------------------------------------- bounds

\* boots explored by SpecRestarts, which follows the restarts of a device whose
\* debounce timer never fires
MaxRestarts == 11

\* boots explored by SpecPowerCycles, where every reset is a power cycle
MaxPowerCycles == 10

\* boots explored by SpecDebounced, where the timer fires in every session
MaxDebounced == 3

\* boots explored by SpecReason, where the application asks for updates
MaxReasonBoots == 3

\* disconnect events in a row that SpecWifi follows
MaxDisconnects == 2

\* boots in a row that SpecMonotonic follows
MaxMonotonicBoots == 3

\* boots in a row where the timer may fail
MaxTimerFaultBoots == 2

\* calls of lifecycle_init_firmware_revision and lifecycle_configure_homekit by
\* the application in a session, besides the one of app_main
MaxEntryCalls == 2

\* increments of the restart count that are followed from a small count
MaxScratchCount == 3

\* accessory_identify_task instances alive at a time that SpecPlug follows
MaxIdentify == 1

\* calls of wifi_start and wifi_stop by the application, after the call of
\* app_main, that SpecWifi follows
MaxWifiCalls == 2

ESP_OK == "ESP_OK"

ESP_FAIL == "ESP_FAIL"

ESP_ERR_NVS_NOT_FOUND == "ESP_ERR_NVS_NOT_FOUND"

ESP_ERR_NO_MEM == "ESP_ERR_NO_MEM"

ESP_ERR_INVALID_STATE == "ESP_ERR_INVALID_STATE"

ESP_ERR_INVALID_ARG == "ESP_ERR_INVALID_ARG"

ESP_ERR_WIFI_NOT_INIT == "ESP_ERR_WIFI_NOT_INIT"

ESP_ERR_WIFI_NOT_STARTED == "ESP_ERR_WIFI_NOT_STARTED"

\* keys of the NVS partition, written namespace.key
K_RESTART == "lcm.restart_count"

K_UPDATE == "lcm.do_update"

K_SSID == "wifi_cfg.wifi_ssid"

K_PASS == "wifi_cfg.wifi_password"

K_FWVER == "fwcfg.installed_ver"

Namespace(k) ==
    IF k \in {K_RESTART, K_UPDATE} THEN "lcm"
    ELSE IF k \in {K_SSID, K_PASS} THEN "wifi_cfg" ELSE "fwcfg"

\* labels erase_ota_app_partitions walks through, in its order
OtaLabels == <<"ota_1", "ota_2", "ota_0">>

VARIABLES
    s_post_reset_state,      \* RTC memory: [magic, reason, restart_count]
    nvs,                     \* NVS partition: [keys: present keys, rc: value of restart_count]
    s_nvs_initialized,
    s_restart_counter_timer, \* "null" | "armed" | "idle"
    s_wifi_started,
    pc,                      \* where the main task stands
    cd,                      \* loop variable i of the countdown
    seq,                     \* the running sequence: [kind, auto, selected, zeroed, steps];
                             \* zeroed is the error of its last write of a zero count
    report,                  \* what this boot logged: [count, reason, read, loaded, saved]
    parts,                   \* flash: [factory, ota, boot, running, erased]; boot is
                             \* the next-boot slot that otadata records
    hk_resets,               \* homekit_server_reset calls since the last reset of the CPU
    s_wifi_on_ready_cb,      \* "NULL" or the function stored by wifi_start
    s_wifi_netif,            \* the netif handle is not NULL
    radio,                   \* Wi-Fi driver, event loop and netif (see NoRadio)
    wifi_call,               \* the call of wifi_start or wifi_stop under way and what
                             \* the last call or event did:
                             \*   on_ready  argument of the last wifi_start
                             \*   step      next call of StopCalls, result: first error
                             \*   last      [op, started, failed, calls, err] of the last
                             \*             call or event (followed by SpecWifi)
                             \*   streak    disconnect events since the last address
                             \*   made      calls by the application after app_main
    stored_password,         \* the string under wifi_cfg.wifi_password, when stored
    relay_on,                \* main.c: the logical state of the plug
    gpio,                    \* output levels: [RELAY_GPIO, BLUE_LED_GPIO]
    identify_tasks,          \* bag of the running accessory_identify_task instances:
                             \*   [at, previous_led_state, led_at_start]; at 0:
                             \*   created, at k in 1..BlinkWrites: before its k-th
                             \*   write of the LED, at BlinkWrites + 1: before the
                             \*   restoring write; led_at_start: the level of the
                             \*   LED when the task read relay_on
    relay_set,               \* where each caller of relay_on_set stands:
                             \*   "idle" | "assigned" | "relay_written"
    ota_trigger,             \* [bool_value: value of the characteristic,
                             \*  last: [ch, format, value, calls] of the last run of
                             \*  lifecycle_handle_ota_trigger]
    firmware,                \* the firmware revision: [s_fw_revision_initialized,
                             \*  s_fw_revision: "" or "set", the buffer is empty or not,
                             \*  revision: what revision.value.string_value points at,
                             \*  made: calls of the two public functions by the
                             \*  application besides the one of app_main,
                             \*  last: [op, revision, fallback_version, ota_trigger, err]
                             \*  of the last of them]
    server,                  \* the accessory server of main.c: [homekit_started: the
                             \*  static of on_wifi_ready, inits: calls of
                             \*  homekit_server_init]
    shutdown,                \* the last run of lifecycle_perform_common_shutdown:
                             \*   [hook: wifi_config_shutdown is linked, mdns_err: what
                             \*    mdns_service_remove returned, stop_err: what wifi_stop
                             \*    returned, warned: the steps that logged a warning]
    obs                      \* observations since Init:
                             \*   boots   runs of the boot protocol
                             \*   kind    resets seen: "none" | "warm" | "cold" | "mixed"
                             \*   lost    the boot protocol failed to read or to write the count,
                             \*           or nvs_flash_init erased the store (followed only
                             \*           where the environment asks for it)
                             \*   tfire   the timer callback of the last session: "none" | "ok" | "err"
                             \*   auto_fr factory resets started by the boot protocol
                             \*   prev    the last boot that reported a count (see NoPrev;
                             \*           followed only where the environment asks for it)

\* the variables of the Wi-Fi manager besides its started flag
wifi_rest == <<s_wifi_on_ready_cb, s_wifi_netif, radio, wifi_call, stored_password>>

\* the variables of the application in main.c, and the last common shutdown
plug ==
    <<relay_on, gpio, identify_tasks, relay_set, ota_trigger, firmware, server, shutdown>>

vars == <<s_post_reset_state, nvs, s_nvs_initialized, s_restart_counter_timer,
          s_wifi_started, pc, cd, seq, report, parts, hk_resets, obs, wifi_rest, plug>>

\* ------------------------------------------------------------------ NVS store

EmptyStore == [keys |-> {}, rc |-> U32(0)]

\* outcomes of nvs_flash_init (with the erase-and-retry recovery)
InitOutcomes == {"ok", "recovered", "erase_failed", "failed"}

\* the outcomes that matter when the flag is already set: none
InitInputs(inited) == IF inited THEN {"ok"} ELSE InitOutcomes

LoadFaults == {"none", "open", "get"}

\* "commit": nvs_commit fails and the value is not on flash;
\* "commit_late": nvs_commit reports a failure but the value reached flash
SaveFaults == {"none", "open", "set", "commit", "commit_late"}

lifecycle_ensure_nvs_initialized(inited, store, fi) ==
    IF inited THEN [err |-> ESP_OK, inited |-> TRUE, store |-> store]
    ELSE IF fi = "ok" THEN [err |-> ESP_OK, inited |-> TRUE, store |-> store]
    ELSE IF fi = "recovered" THEN [err |-> ESP_OK, inited |-> TRUE, store |-> EmptyStore]
    ELSE [err |-> ESP_FAIL, inited |-> FALSE, store |-> store]

\* mutant: the value read is never handed to the caller
load_restart_counter_drops_value(inited, store, fi, fo) ==
    LET init == lifecycle_ensure_nvs_initialized(inited, store, fi) IN
    IF init.err # ESP_OK
    THEN [err |-> init.err, value |-> U32(0), inited |-> init.inited, store |-> init.store]
    ELSE IF fo \in {"open", "get"}
    THEN [err |-> ESP_FAIL, value |-> U32(0), inited |-> TRUE, store |-> init.store]
    ELSE [err |-> ESP_OK, value |-> U32(0), inited |-> TRUE, store |-> init.store]

load_restart_counter_from_nvs(inited, store, fi, fo) ==
    LET init == lifecycle_ensure_nvs_initialized(inited, store, fi) IN
    IF init.err # ESP_OK
    THEN [err |-> init.err, value |-> U32(0), inited |-> init.inited, store |-> init.store]
    ELSE IF fo = "open"
    THEN [err |-> ESP_FAIL, value |-> U32(0), inited |-> TRUE, store |-> init.store]
    ELSE IF fo = "get"
    THEN [err |-> ESP_FAIL, value |-> U32(0), inited |-> TRUE, store |-> init.store]
    ELSE IF K_RESTART \notin init.store.keys
    THEN [err |-> ESP_OK, value |-> U32(0), inited |-> TRUE, store |-> init.store]
    ELSE [err |-> ESP_OK, value |-> init.store.rc, inited |-> TRUE, store |-> init.store]

\* mutant: the error of nvs_set_u32 is dropped
save_restart_counter_drops_set_error(value, inited, store, fi, fo) ==
    LET init == lifecycle_ensure_nvs_initialized(inited, store, fi)
        written == [keys |-> init.store.keys \cup {K_RESTART}, rc |-> value]
    IN
    IF init.err # ESP_OK
    THEN [err |-> init.err, inited |-> init.inited, store |-> init.store]
    ELSE IF fo = "set"
    THEN [err |-> ESP_OK, inited |-> TRUE, store |-> init.store]
    ELSE IF fo \in {"open", "commit"}
    THEN [err |-> ESP_FAIL, inited |-> TRUE, store |-> init.store]
    ELSE IF fo = "commit_late"
    THEN [err |-> ESP_FAIL, inited |-> TRUE, store |-> written]
    ELSE [err |-> ESP_OK, inited |-> TRUE, store |-> written]

save_restart_counter_to_nvs(value, inited, store, fi, fo) ==
    LET init == lifecycle_ensure_nvs_initialized(inited, store, fi)
        written == [keys |-> init.store.keys \cup {K_RESTART}, rc |-> value]
    IN
    IF init.err # ESP_OK
    THEN [err |-> init.err, inited |-> init.inited, store |-> init.store]
    ELSE IF fo \in {"open", "set", "commit"}
    THEN [err |-> ESP_FAIL, inited |-> TRUE, store |-> init.store]
    ELSE IF fo = "commit_late"
    THEN [err |-> ESP_FAIL, inited |-> TRUE, store |-> written]
    ELSE [err |-> ESP_OK, inited |-> TRUE, store |-> written]

\* ----------------------------------------------------------------------- Wi-Fi

\* the functions a caller hands to wifi_start: on_wifi_ready of main.c and a
\* second one
Callbacks == {"on_wifi_ready", "on_ready_2"}

\* strings are the sequences of their character codes: "", "s" and "sec"
Passwords == {<<>>, <<115>>, <<115, 101, 99>>}

\* the Wi-Fi driver, the default event loop and the netif layer, as driven by
\* the calls of wifi_start and wifi_stop:
\*   handlers   event bases wifi_event_handler is registered for
\*   driver     "none" | "init" | "started"
\*   authmode   wc.sta.threshold.authmode of the last esp_wifi_set_config
\*   link       "down" | "connecting" | "up"
\*   sta_start  WIFI_EVENT_STA_START is posted and not yet delivered
NoRadio ==
    [handlers |-> {}, driver |-> "none", authmode |-> "none", link |-> "down",
     sta_start |-> FALSE]

\* no call or event observed yet
NoLast == [op |-> "none", started |-> FALSE, failed |-> "none", calls |-> <<>>,
           err |-> ESP_OK, rets |-> <<>>, ready |-> "none"]

NoWifiCall == [on_ready |-> "NULL", step |-> 1, result |-> ESP_OK, last |-> NoLast,
               streak |-> 0, made |-> 0, stopped |-> FALSE]

\* the statics of the manager and the platform under them, as one record
WifiState(started, cb, netif, rd) ==
    [started |-> started, cb |-> cb, netif |-> netif, radio |-> rd]

\* the place of x in the sequence s
Pos(s, x) == CHOOSE i \in DOMAIN s : s[i] = x

\* the store calls of nvs_load_wifi that may fail
WifiLoadFaults == {"none", "nvs_open", "get_ssid", "get_pass", "malloc"}

\* mutant: an absent wifi_ssid is read as the empty string, like an absent
\* wifi_password
nvs_load_wifi_reads_absent_ssid(inited, store, password, fi, fl) ==
    LET init == lifecycle_ensure_nvs_initialized(inited, store, fi)
        out(err, failed, pass) ==
            [err |-> err, failed |-> failed, pass |-> pass, inited |-> init.inited,
             store |-> init.store]
    IN IF init.err # ESP_OK THEN out(init.err, "nvs_flash_init", <<>>)
       ELSE IF fl = "nvs_open" THEN out(ESP_FAIL, fl, <<>>)
       ELSE IF fl = "get_ssid" THEN out(ESP_FAIL, fl, <<>>)
       ELSE IF fl = "get_pass" /\ K_PASS \in init.store.keys THEN out(ESP_FAIL, fl, <<>>)
       ELSE IF fl = "malloc" THEN out(ESP_ERR_NO_MEM, fl, <<>>)
       ELSE out(ESP_OK, "none", IF K_PASS \in init.store.keys THEN password ELSE <<>>)

\* nvs_load_wifi: [err, failed, pass, inited, store].  nvs_open(NVS_READONLY)
\* of a namespace that was never written and nvs_get_str of an absent
\* wifi_ssid both return ESP_ERR_NVS_NOT_FOUND; an absent wifi_password is read
\* as the empty string
nvs_load_wifi(inited, store, password, fi, fl) ==
    LET init == lifecycle_ensure_nvs_initialized(inited, store, fi)
        out(err, failed, pass) ==
            [err |-> err, failed |-> failed, pass |-> pass, inited |-> init.inited,
             store |-> init.store]
    IN IF init.err # ESP_OK THEN out(init.err, "nvs_flash_init", <<>>)
       ELSE IF fl = "nvs_open" THEN out(ESP_FAIL, fl, <<>>)
       ELSE IF K_SSID \notin init.store.keys THEN out(ESP_ERR_NVS_NOT_FOUND, "none", <<>>)
       ELSE IF fl = "get_ssid" THEN out(ESP_FAIL, fl, <<>>)
       ELSE IF fl = "get_pass" /\ K_PASS \in init.store.keys THEN out(ESP_FAIL, fl, <<>>)
       ELSE IF fl = "malloc" THEN out(ESP_ERR_NO_MEM, fl, <<>>)
       ELSE out(ESP_OK, "none", IF K_PASS \in init.store.keys THEN password ELSE <<>>)

\* mutant: the length of the buffer is tested, not its first character
AuthMode_by_length_of_buffer(pass) ==
    LET buf == pass \o <<0>>
        pass_empty == Len(buf) = 0
    IN IF pass_empty THEN "WIFI_AUTH_OPEN" ELSE "WIFI_AUTH_WPA2_PSK"

\* the authmode wifi_start chooses for the NUL-terminated string pass
AuthMode(pass) ==
    LET buf == pass \o <<0>>
        pass_empty == buf[1] = 0
    IN IF pass_empty THEN "WIFI_AUTH_OPEN" ELSE "WIFI_AUTH_WPA2_PSK"

\* the calls of wifi_start after nvs_load_wifi, in its order
StartCalls ==
    <<"esp_netif_init", "esp_event_loop_create_default",
      "esp_netif_create_default_wifi_sta", "register_wifi_event", "register_ip_event",
      "esp_wifi_init", "esp_wifi_set_storage", "esp_wifi_set_mode",
      "esp_wifi_set_config", "esp_wifi_start">>

WifiStartFaults == {"none"} \cup {StartCalls[i] : i \in DOMAIN StartCalls}

\* the call of wifi_start that fails; on a started manager it makes none
WifiFaultInputs(started) ==
    IF started THEN {"none"} ELSE WifiLoadFaults \cup WifiStartFaults

\* the state after the first n calls of StartCalls returned without an error
StartEffects(m, mode, n) ==
    LET made(call) == Pos(StartCalls, call) <= n IN
    [m EXCEPT
       !.netif = @ \/ made("esp_netif_create_default_wifi_sta"),
       !.radio = [handlers |-> @.handlers
                                 \cup (IF made("register_wifi_event")
                                       THEN {"WIFI_EVENT"} ELSE {})
                                 \cup (IF made("register_ip_event")
                                       THEN {"IP_EVENT"} ELSE {}),
                  driver |-> IF made("esp_wifi_start") THEN "started"
                             ELSE IF made("esp_wifi_init") /\ @.driver = "none" THEN "init"
                             ELSE @.driver,
                  authmode |-> IF made("esp_wifi_set_config") THEN mode ELSE @.authmode,
                  link |-> @.link,
                  sta_start |-> @.sta_start \/ made("esp_wifi_start")]]

\* mutant: the started flag is not looked at and the manager starts again
wifi_start_radio_starts_again(m, inited, store, password, on_ready, fi, fl, fw) ==
    LET ld == nvs_load_wifi(inited, store, password, fi, fl)
        skipped == m.netif /\ fw = "esp_netif_create_default_wifi_sta"
        n == IF fw = "none" \/ skipped THEN Len(StartCalls) ELSE Pos(StartCalls, fw) - 1
        tried == IF n = Len(StartCalls) THEN StartCalls ELSE SubSeq(StartCalls, 1, n + 1)
        calls == <<"nvs_load_wifi">>
                 \o SelectSeq(tried, LAMBDA c :
                       ~(m.netif /\ c = "esp_netif_create_default_wifi_sta"))
    IN IF ld.err # ESP_OK
       THEN [done |-> TRUE, err |-> ld.err, failed |-> ld.failed, m |-> m,
             inited |-> ld.inited, store |-> ld.store, calls |-> <<"nvs_load_wifi">>]
       ELSE IF n < Len(StartCalls)
       THEN [done |-> TRUE,
             err |-> IF fw = "esp_netif_create_default_wifi_sta"
                     THEN ESP_ERR_NO_MEM ELSE ESP_FAIL,
             failed |-> fw, m |-> StartEffects(m, AuthMode(ld.pass), n),
             inited |-> ld.inited, store |-> ld.store, calls |-> calls]
       ELSE [done |-> FALSE, err |-> ESP_OK, failed |-> "none",
             m |-> StartEffects(m, AuthMode(ld.pass), n),
             inited |-> ld.inited, store |-> ld.store, calls |-> calls]

\* wifi_start up to the return of esp_wifi_start (lines 542-599):
\* [done, err, failed, m, inited, store, calls]; done: the function has returned
wifi_start_radio(m, inited, store, password, on_ready, fi, fl, fw) ==
    LET ld == nvs_load_wifi(inited, store, password, fi, fl)
        skipped == m.netif /\ fw = "esp_netif_create_default_wifi_sta"
        n == IF fw = "none" \/ skipped THEN Len(StartCalls) ELSE Pos(StartCalls, fw) - 1
        tried == IF n = Len(StartCalls) THEN StartCalls ELSE SubSeq(StartCalls, 1, n + 1)
        calls == <<"nvs_load_wifi">>
                 \o SelectSeq(tried, LAMBDA c :
                       ~(m.netif /\ c = "esp_netif_create_default_wifi_sta"))
    IN IF m.started
       THEN [done |-> TRUE, err |-> ESP_OK, failed |-> "none",
             m |-> [m EXCEPT !.cb = on_ready],
             inited |-> inited, store |-> store, calls |-> <<>>]
       ELSE IF ld.err # ESP_OK
       THEN [done |-> TRUE, err |-> ld.err, failed |-> ld.failed, m |-> m,
             inited |-> ld.inited, store |-> ld.store, calls |-> <<"nvs_load_wifi">>]
       ELSE IF n < Len(StartCalls)
       THEN [done |-> TRUE,
             err |-> IF fw = "esp_netif_create_default_wifi_sta"
                     THEN ESP_ERR_NO_MEM ELSE ESP_FAIL,
             failed |-> fw, m |-> StartEffects(m, AuthMode(ld.pass), n),
             inited |-> ld.inited, store |-> ld.store, calls |-> calls]
       ELSE [done |-> FALSE, err |-> ESP_OK, failed |-> "none",
             m |-> StartEffects(m, AuthMode(ld.pass), n),
             inited |-> ld.inited, store |-> ld.store, calls |-> calls]

\* the two assignments that end wifi_start (lines 601-602)
wifi_start_store(m, on_ready) == [m EXCEPT !.cb = on_ready, !.started = TRUE]

\* wifi_start from call to return
wifi_start(m, inited, store, password, on_ready, fi, fl, fw) ==
    LET r == wifi_start_radio(m, inited, store, password, on_ready, fi, fl, fw) IN
    IF r.done THEN r
    ELSE [r EXCEPT !.done = TRUE, !.m = wifi_start_store(r.m, on_ready)]

\* the calls of wifi_stop on a started manager, in its order
StopCalls ==
    <<"esp_wifi_disconnect", "esp_wifi_stop", "unregister_wifi_event",
      "unregister_ip_event", "esp_wifi_deinit">>

\* one call of wifi_stop: the call that returns an error changes nothing
wifi_stop_call(m, call, fails) ==
    IF fails THEN m
    ELSE IF call = "esp_wifi_disconnect" THEN [m EXCEPT !.radio.link = "down"]
    ELSE IF call = "esp_wifi_stop"
    THEN [m EXCEPT !.radio.driver = IF @ = "started" THEN "init" ELSE @,
                   !.radio.link = "down", !.radio.sta_start = FALSE]
    ELSE IF call = "unregister_wifi_event"
    THEN [m EXCEPT !.radio.handlers = @ \ {"WIFI_EVENT"}]
    ELSE IF call = "unregister_ip_event"
    THEN [m EXCEPT !.radio.handlers = @ \ {"IP_EVENT"}]
    ELSE [m EXCEPT !.radio.driver = "none", !.radio.authmode = "none",
                   !.radio.link = "down", !.radio.sta_start = FALSE]

\* the codes a call of wifi_stop may return
StopErrors ==
    {ESP_OK, ESP_FAIL, ESP_ERR_NO_MEM, ESP_ERR_INVALID_STATE, ESP_ERR_WIFI_NOT_INIT,
     ESP_ERR_WIFI_NOT_STARTED}

\* the errors of a call that wifi_stop passes over without a warning
StopTolerates(call) ==
    IF call = "esp_wifi_disconnect" THEN {ESP_ERR_WIFI_NOT_STARTED, ESP_ERR_WIFI_NOT_INIT}
    ELSE IF call \in {"unregister_wifi_event", "unregister_ip_event"}
    THEN {ESP_ERR_INVALID_STATE}
    ELSE {ESP_ERR_WIFI_NOT_INIT}

\* the test after each call of wifi_stop
StopFails(call, err) == err # ESP_OK /\ err \notin StopTolerates(call)

\* mutant: the error of the last failing call is the one returned
wifi_stop_result_takes_last(result, call, err) ==
    IF StopFails(call, err) THEN err ELSE result

\* if (result == ESP_OK) result = err: the first error is the one wifi_stop
\* returns
wifi_stop_result(result, call, err) ==
    IF StopFails(call, err) /\ result = ESP_OK THEN err ELSE result

\* mutant: after a failed step the manager is left as started
wifi_stop_finish_keeps_failed(m, result) ==
    IF result # ESP_OK THEN m
    ELSE [m EXCEPT !.netif = FALSE, !.started = FALSE, !.cb = "NULL"]

\* the end of wifi_stop (lines 660-669)
wifi_stop_finish(m, result) ==
    [m EXCEPT !.netif = FALSE, !.started = FALSE, !.cb = "NULL"]

\* the state and the error after the calls k..5 of wifi_stop, of which those in
\* `failing` return an error
RECURSIVE wifi_stop_from(_, _, _, _)
wifi_stop_from(m, k, result, failing) ==
    IF k > Len(StopCalls)
    THEN [err |-> result, m |-> wifi_stop_finish(m, result)]
    ELSE wifi_stop_from(wifi_stop_call(m, StopCalls[k], StopCalls[k] \in failing),
                        k + 1,
                        wifi_stop_result(result, StopCalls[k],
                                         IF StopCalls[k] \in failing THEN ESP_FAIL
                                         ELSE ESP_OK),
                        failing)

\* wifi_stop from call to return: [err, m]
wifi_stop(m, failing) ==
    IF ~m.started THEN [err |-> ESP_OK, m |-> m]
    ELSE wifi_stop_from(m, 1, ESP_OK, failing)

WifiEvents ==
    {"WIFI_EVENT_STA_START", "WIFI_EVENT_STA_DISCONNECTED", "IP_EVENT_STA_GOT_IP"}

\* mutant: a lost link is logged and not connected again
wifi_event_handler_gives_up(m, event) ==
    IF event = "WIFI_EVENT_STA_START"
    THEN [m |-> [m EXCEPT !.radio.link = IF m.radio.driver = "started"
                                          THEN "connecting" ELSE @],
          calls |-> <<"esp_wifi_connect">>]
    ELSE IF event = "IP_EVENT_STA_GOT_IP" /\ m.cb # "NULL"
    THEN [m |-> m, calls |-> <<m.cb>>]
    ELSE [m |-> m, calls |-> <<>>]

\* wifi_event_handler: [m, calls]; esp_wifi_connect starts a connection when
\* the driver is started
wifi_event_handler(m, event) ==
    IF event \in {"WIFI_EVENT_STA_START", "WIFI_EVENT_STA_DISCONNECTED"}
    THEN [m |-> [m EXCEPT !.radio.link = IF m.radio.driver = "started"
                                          THEN "connecting" ELSE @],
          calls |-> <<"esp_wifi_connect">>]
    ELSE IF event = "IP_EVENT_STA_GOT_IP" /\ m.cb # "NULL"
    THEN [m |-> m, calls |-> <<m.cb>>]
    ELSE [m |-> m, calls |-> <<>>]

\* --------------------------------------------------------- the accessory server

NoServer == [homekit_started |-> FALSE, inits |-> 0]

\* mutant: every call starts the server
on_wifi_ready_starts_again(h) ==
    [h EXCEPT !.inits = IF @ < 2 THEN @ + 1 ELSE @, !.homekit_started = TRUE]

\* on_wifi_ready of main.c: homekit_server_init unless homekit_started
on_wifi_ready(h) ==
    IF h.homekit_started THEN h
    ELSE [h EXCEPT !.inits = @ + 1, !.homekit_started = TRUE]

\* the manager as the variables hold it
Manager == WifiState(s_wifi_started, s_wifi_on_ready_cb, s_wifi_netif, radio)

SetManager(m) ==
    /\ s_wifi_started' = m.started
    /\ s_wifi_on_ready_cb' = m.cb
    /\ s_wifi_netif' = m.netif
    /\ radio' = m.radio


\* ------------------------------------------------------- the plug of main.c

\* the loops of accessory_identify_task: for (i < 3), for (j < 2)
IdentifyRounds == 3

BlinksPerRound == 2

\* blue_led_write calls of the two loops: on and off for every blink
BlinkWrites == IdentifyRounds * BlinksPerRound * 2

\* both pins after gpio_reset_pin and at reset of the chip
GpioAtReset == [RELAY_GPIO |-> FALSE, BLUE_LED_GPIO |-> FALSE]

\* the tasks relay_on_set is called on: the HomeKit server (setter of the ON
\* characteristic) and the button component (button_callback)
RelayCallers == {"homekit", "button"}

relay_write(g, on) == [g EXCEPT !.RELAY_GPIO = on]

blue_led_write(g, on) == [g EXCEPT !.BLUE_LED_GPIO = on]

\* relay_apply_state from call to return
relay_apply_state(g, on) == blue_led_write(relay_write(g, on), on)

\* mutant: the task puts the LED back to what relay_on is when it ends
identify_write_follows_relay(task, on) ==
    IF task.at > BlinkWrites THEN on ELSE task.at % 2 = 1

\* the level the next blue_led_write of an identify task sets: on, off, ... in
\* the loops and previous_led_state after them
identify_write(task, on) ==
    IF task.at > BlinkWrites THEN task.previous_led_state ELSE task.at % 2 = 1

\* formats of a homekit_value_t and the characteristic pointers a setter_ex is
\* called with
ValueFormats == {"homekit_format_bool", "homekit_format_uint8"}

TriggerCharacteristics == {"NULL", "ota_trigger"}

ESP_ERR_NOT_FOUND == "ESP_ERR_NOT_FOUND"

\* what mdns_service_remove may return
MdnsErrors == {ESP_OK, ESP_ERR_NOT_FOUND, ESP_ERR_INVALID_STATE, ESP_FAIL}

NoShutdown == [hook |-> TRUE, mdns_err |-> ESP_OK, stop_err |-> ESP_OK, warned |-> {}]

\* the statics s_fw_revision and s_fw_revision_initialized and the revision
\* characteristic of main.c before lifecycle_init_firmware_revision has run
NoFirmware ==
    [s_fw_revision_initialized |-> FALSE, s_fw_revision |-> "",
     revision |-> "LIFECYCLE_DEFAULT_FW_VERSION", made |-> 0,
     last |-> [op |-> "none", revision |-> "NULL", fallback_version |-> "NULL",
               ota_trigger |-> "NULL", err |-> ESP_OK]]

NoTrigger ==
    [bool_value |-> FALSE, setter_ex |-> "NULL",
     last |-> [ch |-> "none", format |-> "none", value |-> FALSE, calls |-> <<>>]]

\* mutant: the requested value is stored in the characteristic
lifecycle_handle_ota_trigger_keeps_value(t, ch, format, value) ==
    LET seen(calls) == [ch |-> ch, format |-> format, value |-> value, calls |-> calls]
    IN IF ch = "NULL" THEN [t EXCEPT !.last = seen(<<>>)]
       ELSE IF format # "homekit_format_bool" THEN [t EXCEPT !.last = seen(<<>>)]
       ELSE [t EXCEPT
                !.bool_value = value,
                !.last = seen(<<"homekit_characteristic_notify">>
                              \o (IF value THEN <<"lifecycle_request_update_and_reboot">>
                                  ELSE <<>>))]

\* lifecycle_handle_ota_trigger(characteristic, value) on the trigger t: the
\* value it leaves in the characteristic and the calls it makes, in order
lifecycle_handle_ota_trigger(t, ch, format, value) ==
    LET seen(calls) == [ch |-> ch, format |-> format, value |-> value, calls |-> calls]
    IN IF ch = "NULL" THEN [t EXCEPT !.last = seen(<<>>)]
       ELSE IF format # "homekit_format_bool" THEN [t EXCEPT !.last = seen(<<>>)]
       ELSE [t EXCEPT
                !.bool_value = FALSE,
                !.last = seen(<<"homekit_characteristic_notify">>
                              \o (IF value THEN <<"lifecycle_request_update_and_reboot">>
                                  ELSE <<>>))]

\* ---------------------------------------------------------------- RTC state

lifecycle_mark_post_reset(rtc, reason) ==
    [rtc EXCEPT !.magic = k_post_reset_magic, !.reason = reason]

\* the 32-bit word s_post_reset_state.reason is held as the integer that its
\* bits are in two's complement.  (lifecycle_post_reset_reason_t)word compared
\* with an enumerator: the type of the enumeration is unsigned int or int as the
\* compiler chooses; as unsigned int a word with the top bit set is a value
\* above 2^31
ReasonLess(word, enumerator, enum_signed) ==
    IF enum_signed THEN word < enumerator ELSE word >= 0 /\ word < enumerator

ReasonGreater(word, enumerator, enum_signed) ==
    IF enum_signed THEN word > enumerator ELSE word < 0 \/ word > enumerator

\* mutant: a tagged reason is returned without the test of its range
lifecycle_peek_post_reset_reason_in_any_code(rtc, enum_signed) ==
    IF rtc.magic # k_post_reset_magic THEN LIFECYCLE_POST_RESET_NONE
    ELSE rtc.reason

\* lifecycle_peek_post_reset_reason in a build whose enumeration is signed or
\* not
lifecycle_peek_post_reset_reason_in(rtc, enum_signed) ==
    IF rtc.magic # k_post_reset_magic THEN LIFECYCLE_POST_RESET_NONE
    ELSE IF ReasonLess(rtc.reason, LIFECYCLE_POST_RESET_NONE, enum_signed)
            \/ ReasonGreater(rtc.reason, LIFECYCLE_POST_RESET_REASON_UPDATE, enum_signed)
    THEN LIFECYCLE_POST_RESET_NONE
    ELSE rtc.reason

\* the enumeration has no negative enumerator: GCC makes it unsigned int
lifecycle_peek_post_reset_reason(rtc) == lifecycle_peek_post_reset_reason_in(rtc, FALSE)

\* mutant: the whole of s_post_reset_state is zeroed
lifecycle_clear_post_reset_state_zeroes_all(rtc) == [magic |-> U32(0), reason |-> LIFECYCLE_POST_RESET_NONE, restart_count |-> U32(0)]

\* mutant: the state is reported and not cleared
lifecycle_clear_post_reset_state_noop(rtc) == rtc

lifecycle_clear_post_reset_state(rtc) ==
    [rtc EXCEPT !.magic = U32(0), !.reason = LIFECYCLE_POST_RESET_NONE]

\* mutant: the increment without the test for UINT32_MAX
lifecycle_increment_restart_counter_overflows(rtc) ==
    [rtc EXCEPT !.restart_count = U32Inc(rtc.restart_count)]

\* mutant: the wrap check is made and the increment forgotten
lifecycle_increment_restart_counter_forgotten(rtc) ==
    LET from == IF rtc.restart_count = UINT32_MAX THEN U32(0) ELSE rtc.restart_count
    IN [rtc EXCEPT !.restart_count = from]

lifecycle_increment_restart_counter(rtc) ==
    LET from == IF rtc.restart_count = UINT32_MAX THEN U32(0) ELSE rtc.restart_count
    IN [rtc EXCEPT !.restart_count = U32Inc(from)]

\* mutant: only the copy in NVS is reset
lifecycle_reset_restart_counter_keeps_rtc(rtc, inited, store, fi, fo) ==
    LET sv == save_restart_counter_to_nvs(U32(0), inited, store, fi, fo)
    IN [rtc |-> rtc, err |-> sv.err, inited |-> sv.inited, store |-> sv.store]

\* mutant: nothing is written when the RTC count is already 0
lifecycle_reset_restart_counter_skips_when_zero(rtc, inited, store, fi, fo) ==
    LET sv == save_restart_counter_to_nvs(U32(0), inited, store, fi, fo)
    IN IF rtc.restart_count = U32(0)
       THEN [rtc |-> rtc, err |-> ESP_OK, inited |-> inited, store |-> store]
       ELSE [rtc |-> [rtc EXCEPT !.restart_count = U32(0)], err |-> sv.err,
             inited |-> sv.inited, store |-> sv.store]

\* result: [rtc, err, inited, store]
lifecycle_reset_restart_counter(rtc, inited, store, fi, fo) ==
    LET sv == save_restart_counter_to_nvs(U32(0), inited, store, fi, fo)
    IN [rtc |-> [rtc EXCEPT !.restart_count = U32(0)], err |-> sv.err,
        inited |-> sv.inited, store |-> sv.store]

\* the restart count a load of the store finds: 0 when the key is absent
DurableCount(store) == IF K_RESTART \in store.keys THEN store.rc ELSE U32(0)

\* mutant: the RTC value counts only under the magic
BootStartValue_checks_magic(rtc, ld) ==
    IF ld.err # ESP_OK THEN rtc.restart_count
    ELSE IF rtc.magic = k_post_reset_magic /\ ~U32Gt(ld.value, rtc.restart_count)
    THEN rtc.restart_count
    ELSE ld.value

\* mutant: the loaded value replaces the RTC value without the comparison
BootStartValue_takes_loaded(rtc, ld) ==
    IF ld.err = ESP_OK THEN ld.value ELSE rtc.restart_count

\* the value the boot increments from: the NVS value when it was loaded and is
\* larger than the RTC value
BootStartValue(rtc, ld) ==
    IF ld.err = ESP_OK /\ U32Gt(ld.value, rtc.restart_count)
    THEN ld.value
    ELSE rtc.restart_count

NoSeq == [kind |-> "none", auto |-> FALSE, selected |-> FALSE, zeroed |-> ESP_OK,
          steps |-> <<>>]

\* what is remembered of the last boot that reported a count, where the
\* environment follows it: the count, whether its write to NVS succeeded,
\* whether a factory reset ran after it, whether power was lost since, the
\* reason that the sequence of the session before the reset marked, the kind of
\* that sequence, what the timer callback of that session did and the state
\* of the timer at the reset
NoPrev == [count |-> U32(0), saved |-> FALSE, factory |-> FALSE, cold |-> FALSE,
           marked |-> LIFECYCLE_POST_RESET_NONE, kind |-> "none", tfire |-> "none",
           timer |-> "null"]

NoReport == [count |-> U32(0), reason |-> LIFECYCLE_POST_RESET_NONE, read |-> FALSE,
             loaded |-> ESP_OK, saved |-> ESP_OK]

\* ----------------------------------------------------------------------- Init

\* the state at a reset of the CPU, before app_main runs: RTC memory `rtc`, the
\* store `store` with `password` under wifi_password, a partition table with or
\* without a factory slot
AtResetWith(rtc, store, password) ==
    /\ s_post_reset_state = rtc
    /\ nvs = store
    /\ s_nvs_initialized = FALSE
    /\ s_restart_counter_timer = "null"
    /\ s_wifi_started = FALSE
    /\ s_wifi_on_ready_cb = "NULL"
    /\ s_wifi_netif = FALSE
    /\ radio = NoRadio
    /\ wifi_call = NoWifiCall
    /\ stored_password = password
    /\ relay_on = FALSE
    /\ gpio = GpioAtReset
    /\ identify_tasks = EmptyBag
    /\ relay_set = [c \in RelayCallers |-> "idle"]
    /\ ota_trigger = NoTrigger
    /\ firmware = NoFirmware
    /\ server = NoServer
    /\ shutdown = NoShutdown
    /\ pc = "app_main"
    /\ cd = 0
    /\ seq = NoSeq
    /\ report = NoReport
    /\ \E f \in BOOLEAN :
          parts = [factory |-> f, ota |-> {"ota_0", "ota_1"},
                   boot |-> "ota_0", running |-> "ota_0", erased |-> {}]
    /\ hk_resets = 0
    /\ obs = [boots |-> 0, kind |-> "none", lost |-> FALSE,
              tfire |-> "none", auto_fr |-> 0, prev |-> NoPrev]

\* the device as provisioned for a secured network
AtReset(rtc, store) == AtResetWith(rtc, store, <<115, 101, 99>>)

ZeroRtc == [magic |-> U32(0), reason |-> 0, restart_count |-> U32(0)]

\* first power-on of the provisioned device: RTC memory and RAM zeroed, NVS
\* holds the Wi-Fi credentials and no lifecycle key
Init == AtReset(ZeroRtc, [keys |-> {K_SSID, K_PASS}, rc |-> U32(0)])

\* the same device at its first power-on or after nine restarts in a row, each
\* counted in both tiers (SpecRestarts reaches this state from Init)
InitAnyReset ==
    \E n \in {0, RestartThreshold - 1} :
       AtReset([ZeroRtc EXCEPT !.restart_count = U32(n)],
               [keys |-> IF n = 0 THEN {K_SSID, K_PASS}
                         ELSE {K_SSID, K_PASS, K_FWVER, K_RESTART},
                rc |-> U32(n)])

\* ------------------------------------------------------------------- app_main

\* app_main: ESP_ERROR_CHECK(lifecycle_nvs_init()); a failure aborts
AppMainNvsInit(env) ==
    /\ pc = "app_main"
    /\ obs.boots < env.limit
    /\ \E fi \in InitInputs(s_nvs_initialized) \cap env.init :
          LET init == lifecycle_ensure_nvs_initialized(s_nvs_initialized, nvs, fi) IN
          /\ s_nvs_initialized' = init.inited
          /\ nvs' = init.store
          /\ pc' = IF init.err = ESP_OK THEN "log_post_reset" ELSE "abort"
          /\ obs' = [obs EXCEPT !.lost = @ \/ (env.track /\ fi = "recovered")]
    /\ UNCHANGED <<s_post_reset_state, s_restart_counter_timer, s_wifi_started, wifi_rest, plug, cd,
                   seq, report, parts, hk_resets>>

TimerFaults == {"ok", "create_failed", "start_failed"}

\* lifecycle_schedule_restart_counter_timeout on the timer handle
lifecycle_schedule_restart_counter_timeout(timer, ft) ==
    IF timer = "null" /\ ft = "create_failed" THEN "null"
    ELSE IF ft = "start_failed" THEN "idle"
    ELSE "armed"

\* mutant: the threshold itself is not yet a crash loop
CrashLoopDetected_above_threshold(restart_count) ==
    U32Gt(restart_count, U32(RestartThreshold))

\* lifecycle_log_post_reset_state: if (restart_count >= 10U)
CrashLoopDetected(restart_count) == U32Ge(restart_count, U32(RestartThreshold))

\* lifecycle_log_post_reset_state, up to its first blocking call: the counter
\* protocol, the arming of the timer, the threshold check and, below the
\* threshold, the report and the clearing of the reason
lifecycle_log_post_reset_state(env) ==
    /\ pc = "log_post_reset"
    /\ \E fi \in InitInputs(s_nvs_initialized), fl \in env.load,
          fs \in env.save, ft \in env.timer :
          LET ld == load_restart_counter_from_nvs(s_nvs_initialized, nvs, fi, fl)
              merged == [s_post_reset_state EXCEPT
                            !.restart_count = BootStartValue(s_post_reset_state, ld)]
              inc == lifecycle_increment_restart_counter(merged)
              restart_count == inc.restart_count
              sv == save_restart_counter_to_nvs(restart_count, ld.inited, ld.store, fi, fs)
              crash_loop == CrashLoopDetected(restart_count)
          IN
          /\ nvs' = sv.store
          /\ s_nvs_initialized' = sv.inited
          /\ s_restart_counter_timer' =
                lifecycle_schedule_restart_counter_timeout(s_restart_counter_timer, ft)
          /\ obs' = [obs EXCEPT !.boots = @ + 1, !.tfire = "none",
                                !.lost = @ \/ (env.track /\ ld.err # ESP_OK)
                                           \/ (env.track /\ sv.err # ESP_OK)]
          /\ IF crash_loop
             THEN /\ s_post_reset_state' = inc
                  /\ report' = [count |-> restart_count,
                                reason |-> LIFECYCLE_POST_RESET_NONE, read |-> FALSE,
                                loaded |-> ld.err, saved |-> sv.err]
                  /\ cd' = CountdownFrom
                  /\ pc' = "countdown"
             ELSE /\ s_post_reset_state' = lifecycle_clear_post_reset_state(inc)
                  /\ report' = [count |-> restart_count,
                                reason |-> lifecycle_peek_post_reset_reason(inc),
                                read |-> TRUE, loaded |-> ld.err, saved |-> sv.err]
                  /\ cd' = cd
                  /\ pc' = "configure"
    /\ UNCHANGED <<s_wifi_started, wifi_rest, plug, seq, parts, hk_resets>>

\* one turn of the countdown loop: the log line and vTaskDelay(1000 ms)
CountdownStep ==
    /\ pc = "countdown"
    /\ cd >= 0
    /\ cd' = cd - 1
    /\ UNCHANGED <<s_post_reset_state, nvs, s_nvs_initialized, s_restart_counter_timer,
                   s_wifi_started, wifi_rest, plug, pc, seq, report, parts, hk_resets, obs>>

\* mutant: the factory reset starts after the first countdown step
CountdownDone_after_first_step ==
    /\ pc = "countdown"
    /\ cd < CountdownFrom
    /\ \E fi \in InitInputs(s_nvs_initialized), fs \in SaveFaults :
          LET r == lifecycle_reset_restart_counter(s_post_reset_state,
                                                   s_nvs_initialized, nvs, fi, fs) IN
          /\ s_post_reset_state' = r.rtc
          /\ nvs' = r.store
          /\ s_nvs_initialized' = r.inited
          /\ obs' = [obs EXCEPT !.auto_fr = @ + 1]
          /\ seq' = [NoSeq EXCEPT !.kind = "factory", !.auto = TRUE, !.zeroed = r.err]
    /\ pc' = "fr_reset_counter"
    /\ UNCHANGED <<s_restart_counter_timer, s_wifi_started, wifi_rest, plug, cd, report, parts, hk_resets>>

\* after the loop: lifecycle_reset_restart_counter() and the call of
\* lifecycle_factory_reset_and_reboot()
CountdownDone ==
    /\ pc = "countdown"
    /\ cd < 0
    /\ \E fi \in InitInputs(s_nvs_initialized), fs \in SaveFaults :
          LET r == lifecycle_reset_restart_counter(s_post_reset_state,
                                                   s_nvs_initialized, nvs, fi, fs) IN
          /\ s_post_reset_state' = r.rtc
          /\ nvs' = r.store
          /\ s_nvs_initialized' = r.inited
          /\ obs' = [obs EXCEPT !.auto_fr = @ + 1]
          /\ seq' = [NoSeq EXCEPT !.kind = "factory", !.auto = TRUE, !.zeroed = r.err]
    /\ pc' = "fr_reset_counter"
    /\ UNCHANGED <<s_restart_counter_timer, s_wifi_started, wifi_rest, plug, cd, report, parts, hk_resets>>

\* --------------------------------------------------------------- timer callback

\* mutant: the callback also runs for a timer that was created and not started
lifecycle_restart_counter_timeout_unarmed ==
    /\ s_restart_counter_timer # "null"
    /\ pc \notin {"restarting", "abort"}
    /\ \E fi \in InitInputs(s_nvs_initialized), fs \in SaveFaults :
          LET r == lifecycle_reset_restart_counter(s_post_reset_state,
                                                   s_nvs_initialized, nvs, fi, fs) IN
          /\ s_post_reset_state' = r.rtc
          /\ nvs' = r.store
          /\ s_nvs_initialized' = r.inited
          /\ obs' = [obs EXCEPT !.tfire = IF r.err = ESP_OK THEN "ok" ELSE "err"]
    /\ s_restart_counter_timer' = "idle"
    /\ UNCHANGED <<s_wifi_started, wifi_rest, plug, pc, cd, seq, report, parts, hk_resets>>

\* lifecycle_restart_counter_timeout, run by the esp_timer task when the
\* single-shot timer expires
lifecycle_restart_counter_timeout ==
    /\ s_restart_counter_timer = "armed"
    /\ pc \notin {"restarting", "abort"}
    /\ \E fi \in InitInputs(s_nvs_initialized), fs \in SaveFaults :
          LET r == lifecycle_reset_restart_counter(s_post_reset_state,
                                                   s_nvs_initialized, nvs, fi, fs) IN
          /\ s_post_reset_state' = r.rtc
          /\ nvs' = r.store
          /\ s_nvs_initialized' = r.inited
          /\ obs' = [obs EXCEPT !.tfire = IF r.err = ESP_OK THEN "ok" ELSE "err"]
    /\ s_restart_counter_timer' = "idle"
    /\ UNCHANGED <<s_wifi_started, wifi_rest, plug, pc, cd, seq, report, parts, hk_resets>>

\* ------------------------------------------------------------------- resets

\* what every reset of the CPU does to the RAM of the program
RamCleared ==
    /\ s_nvs_initialized' = FALSE
    /\ s_restart_counter_timer' = "null"
    /\ s_wifi_started' = FALSE
    /\ s_wifi_on_ready_cb' = "NULL"
    /\ s_wifi_netif' = FALSE
    /\ radio' = NoRadio
    /\ wifi_call' = NoWifiCall
    /\ stored_password' = stored_password
    /\ relay_on' = FALSE
    /\ gpio' = GpioAtReset
    /\ identify_tasks' = EmptyBag
    /\ relay_set' = [c \in RelayCallers |-> "idle"]
    /\ ota_trigger' = NoTrigger
    /\ firmware' = NoFirmware
    /\ server' = NoServer
    /\ shutdown' = NoShutdown
    /\ cd' = 0
    /\ seq' = NoSeq
    /\ report' = NoReport
    /\ hk_resets' = 0
    /\ pc' = "app_main"

\* a reset comes after esp_restart, after an abort, or while the application
\* runs; where the environment debounces, only once the timer has fired
MayReset(env) ==
    /\ pc \in {"restarting", "abort", "run"}
    /\ obs.boots < env.limit
    /\ env.debounced => obs.tfire # "none"

\* the reason that the sequence `q`, which has reached esp_restart, marked:
\* lifecycle_reset_homekit_and_reboot marks always, the two others after the
\* selection of the factory slot
SeqMarked(q) ==
    IF q.kind = "homekit" THEN LIFECYCLE_POST_RESET_REASON_HOMEKIT
    ELSE IF q.kind = "update" /\ q.selected THEN LIFECYCLE_POST_RESET_REASON_UPDATE
    ELSE IF q.kind = "factory" /\ q.selected THEN LIFECYCLE_POST_RESET_REASON_FACTORY
    ELSE LIFECYCLE_POST_RESET_NONE

\* the last boot that reported a count, as seen at a reset: the session that
\* ends, or an earlier one when this session ended before the boot protocol
PrevBoot(env, cold) ==
    IF ~env.history THEN obs.prev
    ELSE IF report.count = U32(0)
    THEN [obs.prev EXCEPT !.cold = @ \/ cold, !.marked = LIFECYCLE_POST_RESET_NONE]
    ELSE [count |-> report.count, saved |-> report.saved = ESP_OK,
          factory |-> seq.kind = "factory", cold |-> cold, marked |-> SeqMarked(seq),
          kind |-> seq.kind, tfire |-> obs.tfire, timer |-> s_restart_counter_timer]

\* the reset that esp_restart or abort ends in, or a crash of the running
\* application: RTC memory and flash are kept
WarmReset(env) ==
    /\ MayReset(env)
    /\ RamCleared
    /\ parts' = [parts EXCEPT !.running = parts.boot]
    /\ obs' = [obs EXCEPT !.kind = IF @ \in {"none", "warm"} THEN "warm" ELSE "mixed",
                          !.prev = PrevBoot(env, FALSE)]
    /\ UNCHANGED <<s_post_reset_state, nvs>>

\* power is lost and comes back: RTC memory is lost, flash is kept
PowerCycle(env) ==
    /\ MayReset(env)
    /\ RamCleared
    /\ s_post_reset_state' = ZeroRtc
    /\ parts' = [parts EXCEPT !.running = parts.boot]
    /\ obs' = [obs EXCEPT !.kind = IF @ \in {"none", "cold"} THEN "cold" ELSE "mixed",
                          !.prev = PrevBoot(env, TRUE)]
    /\ UNCHANGED nvs

\* --------------------------------------------------------- rest of app_main

FwFaults == {"none", "open", "get", "set", "commit", "commit_late"}

\* lifecycle_init_firmware_revision on the store: [err, store]
lifecycle_init_firmware_revision(store, ff) ==
    IF ff = "open" THEN [err |-> ESP_FAIL, store |-> store]
    ELSE IF K_FWVER \in store.keys \/ ff = "get" THEN [err |-> ESP_OK, store |-> store]
    ELSE IF ff \in {"set", "commit"} THEN [err |-> ESP_FAIL, store |-> store]
    ELSE IF ff = "commit_late"
    THEN [err |-> ESP_FAIL, store |-> [store EXCEPT !.keys = @ \cup {K_FWVER}]]
    ELSE [err |-> ESP_OK, store |-> [store EXCEPT !.keys = @ \cup {K_FWVER}]]

\* the arguments an application may pass for a pointer
RevisionArgs == {"NULL", "revision"}

FallbackArgs == {"NULL", "0.0.1"}

\* mutant: a null argument is replaced by a default and the function goes on
lifecycle_init_firmware_revision_args_defaults_null(f, store, revision, fallback_version, ff) ==
    LET r == lifecycle_init_firmware_revision(store, ff) IN
    [err |-> r.err, store |-> r.store,
     firmware |-> [f EXCEPT !.s_fw_revision_initialized = TRUE,
                            !.s_fw_revision = "set",
                            !.revision = IF revision = "NULL" THEN @ ELSE "s_fw_revision"]]

\* lifecycle_init_firmware_revision(revision, fallback_version):
\* [err, store, firmware].  The buffer is filled from the application
\* description, the fallback or "0.0.0" before the store is read, so it is
\* never left empty
lifecycle_init_firmware_revision_args(f, store, revision, fallback_version, ff) ==
    IF revision = "NULL" \/ fallback_version = "NULL"
    THEN [err |-> ESP_ERR_INVALID_ARG, store |-> store, firmware |-> f]
    ELSE LET r == lifecycle_init_firmware_revision(store, ff) IN
         [err |-> r.err, store |-> r.store,
          firmware |-> [f EXCEPT !.s_fw_revision_initialized = TRUE,
                                 !.s_fw_revision = "set",
                                 !.revision = "s_fw_revision"]]

\* lifecycle_configure_homekit(revision, ota_trigger, log_tag) on the trigger
\* t: [err, store, firmware, trigger]
lifecycle_configure_homekit(f, store, t, revision, ch, ff) ==
    IF revision = "NULL"
    THEN [err |-> ESP_ERR_INVALID_ARG, store |-> store, firmware |-> f, trigger |-> t]
    ELSE LET r == lifecycle_init_firmware_revision_args(f, store, revision, "0.0.1", ff)
         IN [err |-> r.err, store |-> r.store, firmware |-> r.firmware,
             trigger |-> IF ch = "NULL" THEN t
                         ELSE [t EXCEPT !.bool_value = FALSE,
                                        !.setter_ex = "lifecycle_handle_ota_trigger"]]

\* the faults of wifi_start that the sessions of app_main follow: the start of
\* the radio fails or not (SpecWifi follows the faults of every call)
AppWifiFaults == {"none", "esp_wifi_start"}

\* lifecycle_configure_homekit under ESP_ERROR_CHECK, gpio_init, button_create:
\* gpio_init: both pins reset and made outputs, relay_on = false,
\* relay_apply_state
GpioInit ==
    /\ relay_on' = FALSE
    /\ gpio' = relay_apply_state(GpioAtReset, FALSE)

\* lifecycle_configure_homekit(&revision, &ota_trigger, "INFORMATION"):
\* [err, store, firmware, trigger]
AppConfigure(store, ff) ==
    lifecycle_configure_homekit(firmware, store, ota_trigger, "revision", "ota_trigger", ff)

\* app_main after the boot protocol: ESP_ERROR_CHECK(lifecycle_configure_homekit),
\* gpio_init, button_create, wifi_start(on_wifi_ready)
AppMainRestWith(fw_faults, wifi_faults) ==
    /\ pc = "configure"
    /\ \E ff \in fw_faults, fw \in wifi_faults :
          LET rev == AppConfigure(nvs, ff)
              ws == wifi_start(Manager, s_nvs_initialized, rev.store, stored_password,
                               "on_wifi_ready", "ok", "none", fw)
          IN /\ IF rev.err # ESP_OK
                THEN /\ pc' = "abort"
                     /\ nvs' = rev.store
                     /\ s_nvs_initialized' = s_nvs_initialized
                     /\ SetManager(Manager)
                     /\ UNCHANGED <<relay_on, gpio>>
                ELSE /\ pc' = "run"
                     /\ nvs' = ws.store
                     /\ s_nvs_initialized' = ws.inited
                     /\ SetManager(ws.m)
                     /\ GpioInit
             /\ ota_trigger' = rev.trigger
             /\ firmware' = rev.firmware
    /\ UNCHANGED <<s_post_reset_state, s_restart_counter_timer, cd, seq, report, parts,
                   hk_resets, obs, wifi_call, stored_password, identify_tasks,
                   relay_set, shutdown, server>>

\* app_main after the boot protocol, with every fault
AppMainRest == AppMainRestWith(FwFaults, AppWifiFaults)

\* ---- the same calls one blocking call at a time, with the event loop

\* app_main from the boot protocol to its call of wifi_start
AppMainConfigure ==
    /\ pc = "configure"
    /\ \E ff \in FwFaults :
          LET rev == AppConfigure(nvs, ff) IN
          /\ nvs' = rev.store
          /\ pc' = IF rev.err # ESP_OK THEN "abort" ELSE "app_wifi_start"
          /\ IF rev.err # ESP_OK THEN UNCHANGED <<relay_on, gpio>> ELSE GpioInit
          /\ ota_trigger' = rev.trigger
          /\ firmware' = rev.firmware
    /\ UNCHANGED <<s_post_reset_state, s_nvs_initialized, s_restart_counter_timer,
                   s_wifi_started, wifi_rest, identify_tasks, relay_set, shutdown, server, cd, seq,
                   report, parts, hk_resets, obs>>

\* the application calls the public lifecycle_init_firmware_revision, before or
\* after app_main has configured the accessory, with any arguments
InitFirmwareRevisionCall ==
    /\ pc \in {"configure", "run"}
    /\ firmware.made < MaxEntryCalls
    /\ \E revision \in RevisionArgs, fallback_version \in FallbackArgs, ff \in FwFaults :
          LET r == lifecycle_init_firmware_revision_args(firmware, nvs, revision,
                                                         fallback_version, ff)
          IN /\ nvs' = r.store
             /\ firmware' =
                   [r.firmware EXCEPT
                      !.made = @ + 1,
                      !.last = [op |-> "lifecycle_init_firmware_revision",
                                revision |-> revision,
                                fallback_version |-> fallback_version,
                                ota_trigger |-> "NULL", err |-> r.err]]
    /\ UNCHANGED <<s_post_reset_state, s_nvs_initialized, s_restart_counter_timer,
                   s_wifi_started, wifi_rest, relay_on, gpio, identify_tasks, relay_set,
                   ota_trigger, shutdown, server, pc, cd, seq, report, parts, hk_resets, obs>>

\* the application calls the public lifecycle_configure_homekit with any
\* arguments
ConfigureHomekitCall ==
    /\ pc \in {"configure", "run"}
    /\ firmware.made < MaxEntryCalls
    /\ \E revision \in RevisionArgs, ch \in TriggerCharacteristics, ff \in FwFaults :
          LET r == lifecycle_configure_homekit(firmware, nvs, ota_trigger, revision, ch, ff)
          IN /\ nvs' = r.store
             /\ ota_trigger' = r.trigger
             /\ firmware' =
                   [r.firmware EXCEPT
                      !.made = @ + 1,
                      !.last = [op |-> "lifecycle_configure_homekit",
                                revision |-> revision, fallback_version |-> "0.0.1",
                                ota_trigger |-> ch, err |-> r.err]]
    /\ UNCHANGED <<s_post_reset_state, s_nvs_initialized, s_restart_counter_timer,
                   s_wifi_started, wifi_rest, relay_on, gpio, identify_tasks, relay_set,
                   shutdown, server, pc, cd, seq, report, parts, hk_resets, obs>>

\* what a call or an event leaves in wifi_call.last
Last(op, failed, calls, err) ==
    [op |-> op, started |-> s_wifi_started, failed |-> failed, calls |-> calls,
     err |-> err, rets |-> <<>>, ready |-> "none"]

\* wifi_start(on_ready) up to its return or to the return of esp_wifi_start;
\* at most one of its calls fails
WifiStartRadio(on_ready) ==
    /\ \E fi \in InitInputs(s_nvs_initialized), f \in WifiFaultInputs(s_wifi_started) :
          LET fl == IF f \in WifiLoadFaults THEN f ELSE "none"
              fw == IF f \in WifiStartFaults THEN f ELSE "none"
          IN
          \E r \in {wifi_start_radio(Manager, s_nvs_initialized, nvs, stored_password,
                                     on_ready, fi, fl, fw)} :
          /\ SetManager(r.m)
          /\ nvs' = r.store
          /\ s_nvs_initialized' = r.inited
          /\ pc' = IF r.done THEN "run" ELSE "wifi_start_store"
          /\ wifi_call' = [wifi_call EXCEPT !.on_ready = on_ready,
                                            !.stopped = FALSE,
                                            !.made = IF pc = "run" THEN @ + 1 ELSE @,
                                            !.last = Last("wifi_start", r.failed,
                                                          r.calls, r.err)]
    /\ UNCHANGED <<s_post_reset_state, s_restart_counter_timer, cd, seq, report, parts,
                   hk_resets, obs, stored_password, plug>>

\* the call app_main makes
AppWifiStart ==
    /\ pc = "app_wifi_start"
    /\ WifiStartRadio("on_wifi_ready")

\* a later call of the public wifi_start by the application
WifiStartCall ==
    /\ pc = "run"
    /\ wifi_call.made < MaxWifiCalls
    /\ \E on_ready \in Callbacks : WifiStartRadio(on_ready)

\* wifi_start after esp_wifi_start has returned: the callback and the flag
WifiStartStore ==
    /\ pc = "wifi_start_store"
    /\ SetManager(wifi_start_store(Manager, wifi_call.on_ready))
    /\ pc' = "run"
    /\ UNCHANGED <<s_post_reset_state, nvs, s_nvs_initialized, s_restart_counter_timer,
                   cd, seq, report, parts, hk_resets, obs, wifi_call, stored_password, plug>>

\* a call of the public wifi_stop: it returns at once on a stopped manager
WifiStopCall ==
    /\ pc = "run"
    /\ wifi_call.made < MaxWifiCalls
    /\ pc' = IF s_wifi_started THEN "wifi_stop" ELSE "run"
    /\ wifi_call' = [wifi_call EXCEPT !.step = 1, !.result = ESP_OK, !.made = @ + 1,
                                      !.stopped = ~s_wifi_started,
                                      !.last = Last("wifi_stop", "none", <<>>, ESP_OK)]
    /\ UNCHANGED <<s_post_reset_state, nvs, s_nvs_initialized, s_restart_counter_timer,
                   s_wifi_started, s_wifi_on_ready_cb, s_wifi_netif, radio, cd, seq,
                   report, parts, hk_resets, obs, stored_password, plug>>

\* the next call of wifi_stop, which returns one of `codes`, and after the last
\* one the end of the function; with `track` the returned codes are kept in
\* wifi_call.last.rets
WifiStopStepWith(codes, track) ==
    /\ pc = "wifi_stop"
    /\ \E err \in codes :
          LET call == StopCalls[wifi_call.step]
              fails == StopFails(call, err)
              m == wifi_stop_call(Manager, call, err # ESP_OK)
              result == wifi_stop_result(wifi_call.result, call, err)
              last == [wifi_call.last EXCEPT
                          !.calls = Append(@, call), !.err = result,
                          !.rets = IF track THEN Append(@, err) ELSE @,
                          !.failed = IF fails /\ @ = "none" THEN call ELSE @]
          IN IF wifi_call.step < Len(StopCalls)
             THEN /\ SetManager(m)
                  /\ pc' = pc
                  /\ wifi_call' = [wifi_call EXCEPT !.step = @ + 1, !.result = result,
                                                    !.last = last]
             ELSE /\ SetManager(wifi_stop_finish(m, result))
                  /\ pc' = "run"
                  /\ wifi_call' = [wifi_call EXCEPT !.step = 1, !.result = result,
                                                    !.stopped = TRUE, !.last = last]
    /\ UNCHANGED <<s_post_reset_state, nvs, s_nvs_initialized, s_restart_counter_timer,
                   cd, seq, report, parts, hk_resets, obs, stored_password, plug>>

\* a call of wifi_stop returns ESP_OK or an error that is not passed over
WifiStopStep == WifiStopStepWith({ESP_OK, ESP_FAIL}, FALSE)

\* the event base of an event
EventBase(event) == IF event = "IP_EVENT_STA_GOT_IP" THEN "IP_EVENT" ELSE "WIFI_EVENT"

\* the driver posts `event`: the start of the station after esp_wifi_start, the
\* loss of the link or the failure of a connection attempt, the address from
\* DHCP once a connection attempt is under way
Posted(event) ==
    IF event = "WIFI_EVENT_STA_START" THEN radio.sta_start
    ELSE IF event = "WIFI_EVENT_STA_DISCONNECTED"
    THEN /\ radio.driver = "started"
         /\ radio.link \in {"connecting", "up"}
         /\ wifi_call.streak < MaxDisconnects
    ELSE radio.driver = "started" /\ radio.link = "connecting"

\* what the event itself changes, before any handler runs
AfterEvent(m, event) ==
    IF event = "WIFI_EVENT_STA_START" THEN [m EXCEPT !.radio.sta_start = FALSE]
    ELSE IF event = "WIFI_EVENT_STA_DISCONNECTED" THEN [m EXCEPT !.radio.link = "down"]
    ELSE [m EXCEPT !.radio.link = "up"]

\* the event loop task delivers a posted event: wifi_event_handler runs when it
\* is registered for the base of the event
WifiEvent ==
    /\ pc \notin {"restarting", "abort"}
    /\ \E event \in WifiEvents :
          /\ Posted(event)
          /\ LET registered == EventBase(event) \in radio.handlers
                 m == AfterEvent(Manager, event)
                 h == IF registered THEN wifi_event_handler(m, event)
                      ELSE [m |-> m, calls |-> <<>>]
             IN /\ SetManager(h.m)
                /\ wifi_call' =
                      [wifi_call EXCEPT
                          !.last = [Last(event,
                                         IF registered THEN "none" ELSE "unhandled",
                                         h.calls, ESP_OK)
                                    EXCEPT !.ready =
                                       IF h.calls # <<"on_wifi_ready">> THEN "none"
                                       ELSE IF on_wifi_ready(server).inits = server.inits
                                       THEN "skip"
                                       ELSE "init"],
                          !.streak = IF event = "WIFI_EVENT_STA_DISCONNECTED" THEN @ + 1
                                     ELSE IF event = "IP_EVENT_STA_GOT_IP" THEN 0 ELSE @]
                /\ server' = IF h.calls = <<"on_wifi_ready">> THEN on_wifi_ready(server)
                              ELSE server
    /\ UNCHANGED <<s_post_reset_state, nvs, s_nvs_initialized, s_restart_counter_timer,
                   pc, cd, seq, report, parts, hk_resets, obs, stored_password, relay_on,
                   gpio, identify_tasks, relay_set, ota_trigger, firmware, shutdown>>

\* ------------------------------------------------------ the plug at run time

\* accessory_identify: xTaskCreate(accessory_identify_task)
AccessoryIdentify ==
    /\ pc = "run"
    /\ BagCardinality(identify_tasks) < MaxIdentify
    /\ identify_tasks' = identify_tasks
                           (+) SetToBag({[at |-> 0, previous_led_state |-> FALSE,
                                          led_at_start |-> FALSE]})
    /\ UNCHANGED <<s_post_reset_state, nvs, s_nvs_initialized, s_restart_counter_timer,
                   s_wifi_started, wifi_rest, relay_on, gpio, relay_set, ota_trigger, shutdown,
                   pc, cd, seq, report, parts, hk_resets, obs, firmware, server>>

\* one instance of accessory_identify_task runs to its next vTaskDelay or to
\* vTaskDelete: it reads relay_on, or writes the LED
IdentifyStep ==
    /\ pc = "run"
    /\ \E task \in BagToSet(identify_tasks) :
          LET others == identify_tasks (-) SetToBag({task}) IN
          IF task.at = 0
          THEN /\ identify_tasks' =
                     others (+) SetToBag({[at |-> 1, previous_led_state |-> relay_on,
                                           led_at_start |-> gpio.BLUE_LED_GPIO]})
               /\ gpio' = gpio
          ELSE /\ gpio' = blue_led_write(gpio, identify_write(task, relay_on))
               /\ identify_tasks' =
                     IF task.at > BlinkWrites THEN others
                     ELSE others (+) SetToBag({[task EXCEPT !.at = @ + 1]})
    /\ UNCHANGED <<s_post_reset_state, nvs, s_nvs_initialized, s_restart_counter_timer,
                   s_wifi_started, wifi_rest, relay_on, relay_set, ota_trigger, shutdown,
                   pc, cd, seq, report, parts, hk_resets, obs, firmware, server>>

\* relay_on_set(value) is called: by the HomeKit server with the value
\* written to the ON characteristic, by button_callback on a single press
\* with !relay_on; a value that is not a bool is refused
RelaySetCall ==
    /\ pc = "run"
    /\ \E c \in RelayCallers, format \in ValueFormats, value \in BOOLEAN :
          /\ relay_set[c] = "idle"
          /\ c = "button" => format = "homekit_format_bool" /\ value = ~relay_on
          /\ IF format # "homekit_format_bool"
             THEN UNCHANGED <<relay_on, relay_set>>
             ELSE /\ relay_on' = value
                  /\ relay_set' = [relay_set EXCEPT ![c] = "assigned"]
    /\ UNCHANGED <<s_post_reset_state, nvs, s_nvs_initialized, s_restart_counter_timer,
                   s_wifi_started, wifi_rest, gpio, identify_tasks, ota_trigger, shutdown,
                   pc, cd, seq, report, parts, hk_resets, obs, firmware, server>>

\* relay_apply_state of a caller: relay_write(relay_on)
RelaySetRelayWrite ==
    /\ pc = "run"
    /\ \E c \in RelayCallers :
          /\ relay_set[c] = "assigned"
          /\ gpio' = relay_write(gpio, relay_on)
          /\ relay_set' = [relay_set EXCEPT ![c] = "relay_written"]
    /\ UNCHANGED <<s_post_reset_state, nvs, s_nvs_initialized, s_restart_counter_timer,
                   s_wifi_started, wifi_rest, relay_on, identify_tasks, ota_trigger, shutdown,
                   pc, cd, seq, report, parts, hk_resets, obs, firmware, server>>

\* relay_apply_state of a caller: blue_led_write(relay_on), and the return of
\* relay_on_set
RelaySetLedWrite ==
    /\ pc = "run"
    /\ \E c \in RelayCallers :
          /\ relay_set[c] = "relay_written"
          /\ gpio' = blue_led_write(gpio, relay_on)
          /\ relay_set' = [relay_set EXCEPT ![c] = "idle"]
    /\ UNCHANGED <<s_post_reset_state, nvs, s_nvs_initialized, s_restart_counter_timer,
                   s_wifi_started, wifi_rest, relay_on, identify_tasks, ota_trigger, shutdown,
                   pc, cd, seq, report, parts, hk_resets, obs, firmware, server>>

\* ------------------------------------------------- deliberate-reboot sequences

\* the main task moves on to `next`, having made the call `step`
Advance(step, next) ==
    /\ seq' = [seq EXCEPT !.steps = Append(@, step)]
    /\ pc' = next

\* button_callback, long press
ButtonLongPress ==
    /\ pc = "run"
    /\ seq' = [NoSeq EXCEPT !.kind = "factory"]
    /\ pc' = "fr_reset_counter"
    /\ UNCHANGED <<s_post_reset_state, nvs, s_nvs_initialized, s_restart_counter_timer,
                   s_wifi_started, wifi_rest, plug, cd, report, parts, hk_resets, obs>>

\* the HomeKit server calls the setter_ex of a characteristic:
\* lifecycle_handle_ota_trigger(ch, value); its last call, when it makes it,
\* is lifecycle_request_update_and_reboot, which does not return
OtaTriggerWrite(ch, format, value) ==
    /\ pc = "run"
    /\ LET t == lifecycle_handle_ota_trigger(ota_trigger, ch, format, value)
           calls == t.last.calls
       IN /\ ota_trigger' = t
          /\ IF calls # <<>> /\ calls[Len(calls)] = "lifecycle_request_update_and_reboot"
             THEN /\ seq' = [NoSeq EXCEPT !.kind = "update"]
                  /\ pc' = "upd_flag"
             ELSE UNCHANGED <<seq, pc>>
    /\ UNCHANGED <<s_post_reset_state, nvs, s_nvs_initialized, s_restart_counter_timer,
                   s_wifi_started, wifi_rest, relay_on, gpio, identify_tasks, relay_set, shutdown,
                   cd, report, parts, hk_resets, obs, firmware, server>>

\* lifecycle_handle_ota_trigger with a true value
OtaTrigger == OtaTriggerWrite("ota_trigger", "homekit_format_bool", TRUE)

\* lifecycle_handle_ota_trigger with any characteristic and value
OtaTriggerAnyWrite ==
    \E ch \in TriggerCharacteristics, format \in ValueFormats, value \in BOOLEAN :
       OtaTriggerWrite(ch, format, value)

\* a caller of the public lifecycle_reset_homekit_and_reboot
HomekitResetRequest ==
    /\ pc = "run"
    /\ seq' = [NoSeq EXCEPT !.kind = "homekit"]
    /\ pc' = "hk_select"
    /\ UNCHANGED <<s_post_reset_state, nvs, s_nvs_initialized, s_restart_counter_timer,
                   s_wifi_started, wifi_rest, plug, cd, report, parts, hk_resets, obs>>

\* mutant: the mark is made whether or not the factory slot was selected
SelectFactoryAndMark_marks_always(rtc, pt, reason, fb) ==
    IF ~pt.factory \/ fb = "fail"
    THEN [selected |-> FALSE, parts |-> pt, rtc |-> lifecycle_mark_post_reset(rtc, reason)]
    ELSE [selected |-> TRUE, parts |-> [pt EXCEPT !.boot = "factory"],
          rtc |-> lifecycle_mark_post_reset(rtc, reason)]

\* esp_partition_find_first(factory) and esp_ota_set_boot_partition(factory),
\* then the mark: [selected, parts, rtc]
SelectFactoryAndMark(rtc, pt, reason, fb) ==
    IF ~pt.factory THEN [selected |-> FALSE, parts |-> pt, rtc |-> rtc]
    ELSE IF fb = "fail" THEN [selected |-> FALSE, parts |-> pt, rtc |-> rtc]
    ELSE [selected |-> TRUE, parts |-> [pt EXCEPT !.boot = "factory"],
          rtc |-> lifecycle_mark_post_reset(rtc, reason)]

\* lifecycle_shutdown_homekit: the steps it logs and makes, and whether the
\* result of mdns_service_remove is logged as a warning
lifecycle_shutdown_homekit(reset_store, mdns_err) ==
    [steps |-> <<"stop_homekit", "wait_hap_clients", "stop_mdns">>
               \o (IF reset_store THEN <<"reset_homekit_store">> ELSE <<>>),
     warned |-> IF mdns_err \notin {ESP_OK, ESP_ERR_NOT_FOUND, ESP_ERR_INVALID_STATE}
                THEN {"stop_mdns"} ELSE {}]

\* lifecycle_stop_provisioning_servers: the weak hook is called when a
\* definition of it is linked
lifecycle_stop_provisioning_servers(hook) ==
    IF hook THEN <<"stop_provisioning">> ELSE <<>>

\* the calls lifecycle_perform_common_shutdown makes, in its order
CommonShutdownStepsWith(reset_homekit_store, hook, mdns_err) ==
    lifecycle_shutdown_homekit(reset_homekit_store, mdns_err).steps
    \o lifecycle_stop_provisioning_servers(hook)
    \o <<"stop_wifi">>

\* the calls lifecycle_perform_common_shutdown makes, in its order, in a build
\* that links wifi_config_shutdown
CommonShutdownSteps(reset_homekit_store) ==
    CommonShutdownStepsWith(reset_homekit_store, TRUE, ESP_OK)

\* mutant: a failure of mdns_service_remove ends the shutdown
lifecycle_perform_common_shutdown_in_stops_on_error(reset_homekit_store, hook, mdns_err, failing, next) ==
    LET hk == lifecycle_shutdown_homekit(reset_homekit_store, mdns_err)
        stop == wifi_stop(Manager, failing)
    IN
    IF hk.warned # {}
    THEN /\ hk_resets' = hk_resets
         /\ SetManager(Manager)
         /\ shutdown' = [hook |-> hook, mdns_err |-> mdns_err, stop_err |-> ESP_OK,
                         warned |-> hk.warned]
         /\ UNCHANGED <<wifi_call, stored_password, relay_on, gpio, identify_tasks,
                        relay_set, ota_trigger, firmware, server>>
         /\ seq' = [seq EXCEPT !.steps = @ \o <<"stop_homekit", "wait_hap_clients",
                                                "stop_mdns">>]
         /\ pc' = next
    ELSE /\ hk_resets' = IF reset_homekit_store THEN hk_resets + 1 ELSE hk_resets
         /\ SetManager(stop.m)
         /\ shutdown' = [hook |-> hook, mdns_err |-> mdns_err, stop_err |-> stop.err,
                         warned |-> IF stop.err # ESP_OK THEN {"stop_wifi"} ELSE {}]
         /\ UNCHANGED <<wifi_call, stored_password, relay_on, gpio, identify_tasks,
                        relay_set, ota_trigger, firmware, server>>
         /\ seq' = [seq EXCEPT !.steps =
                       @ \o CommonShutdownStepsWith(reset_homekit_store, hook, mdns_err)]
         /\ pc' = next

\* lifecycle_perform_common_shutdown in a build with or without the hook, with
\* the result of mdns_service_remove and the calls of wifi_stop that fail
lifecycle_perform_common_shutdown_in(reset_homekit_store, hook, mdns_err, failing, next) ==
    LET hk == lifecycle_shutdown_homekit(reset_homekit_store, mdns_err)
        stop == wifi_stop(Manager, failing)
    IN
    /\ hk_resets' = IF reset_homekit_store THEN hk_resets + 1 ELSE hk_resets
    /\ SetManager(stop.m)
    /\ shutdown' = [hook |-> hook, mdns_err |-> mdns_err, stop_err |-> stop.err,
                    warned |-> hk.warned
                               \cup (IF stop.err # ESP_OK THEN {"stop_wifi"} ELSE {})]
    /\ UNCHANGED <<wifi_call, stored_password, relay_on, gpio, identify_tasks,
                   relay_set, ota_trigger, firmware, server>>
    /\ seq' = [seq EXCEPT !.steps =
                  @ \o CommonShutdownStepsWith(reset_homekit_store, hook, mdns_err)]
    /\ pc' = next

\* mutant: the flag is ignored and the pairing store is reset by every shutdown
lifecycle_perform_common_shutdown_resets_always(reset_homekit_store, next) ==
    /\ hk_resets' = hk_resets + 1
    /\ SetManager(wifi_stop(Manager, {}).m)
    /\ UNCHANGED <<wifi_call, stored_password, plug>>
    /\ seq' = [seq EXCEPT !.steps = @ \o CommonShutdownSteps(reset_homekit_store)]
    /\ pc' = next

\* lifecycle_perform_common_shutdown in a build that links the hook, when no
\* call fails
lifecycle_perform_common_shutdown(reset_homekit_store, next) ==
    lifecycle_perform_common_shutdown_in(reset_homekit_store, TRUE, ESP_OK, {}, next)

\* the call of lifecycle_perform_common_shutdown by each sequence: its argument
\* and where the sequence goes on
ShutdownAt ==
    [upd_shutdown |-> [reset_store |-> FALSE, next |-> "upd_delay"],
     hk_shutdown |-> [reset_store |-> TRUE, next |-> "hk_delay"],
     fr_shutdown |-> [reset_store |-> FALSE, next |-> "fr_erase_wifi"]]

\* lifecycle_perform_common_shutdown as one of the sequences calls it, in any
\* build and with any failure of its calls
CommonShutdownCall ==
    /\ pc \in DOMAIN ShutdownAt
    /\ \E hook \in BOOLEAN, mdns_err \in MdnsErrors,
          failing \in SUBSET {StopCalls[i] : i \in DOMAIN StopCalls} :
          lifecycle_perform_common_shutdown_in(ShutdownAt[pc].reset_store, hook, mdns_err,
                                               failing, ShutdownAt[pc].next)
    /\ UNCHANGED <<s_post_reset_state, nvs, s_nvs_initialized, s_restart_counter_timer,
                   cd, report, parts, obs>>

\* ---- lifecycle_request_update_and_reboot

\* mutant: the function returns to its caller when the flag cannot be written
UpdSetFlag_returns_on_error ==
    /\ pc = "upd_flag"
    /\ \E fs \in SaveFaults :
          IF fs \in {"none", "commit_late"}
          THEN /\ nvs' = [nvs EXCEPT !.keys = @ \cup {K_UPDATE}]
               /\ Advance("set_do_update", "upd_select")
          ELSE /\ nvs' = nvs
               /\ Advance("set_do_update", "run")
    /\ UNCHANGED <<s_post_reset_state, s_nvs_initialized, s_restart_counter_timer,
                   s_wifi_started, wifi_rest, plug, cd, report, parts, hk_resets, obs>>

\* mutant: the update sequence zeroes the restart counter as the factory reset
\* does
UpdSetFlag_resets_counter ==
    /\ pc = "upd_flag"
    /\ \E fs \in SaveFaults :
          nvs' = IF fs \in {"none", "commit_late"}
                 THEN [nvs EXCEPT !.keys = @ \cup {K_UPDATE, K_RESTART}, !.rc = U32(0)]
                 ELSE nvs
    /\ s_post_reset_state' = [s_post_reset_state EXCEPT !.restart_count = U32(0)]
    /\ Advance("set_do_update", "upd_select")
    /\ UNCHANGED <<s_nvs_initialized, s_restart_counter_timer,
                   s_wifi_started, wifi_rest, plug, cd, report, parts, hk_resets, obs>>

UpdSetFlag ==
    /\ pc = "upd_flag"
    /\ \E fs \in SaveFaults :
          nvs' = IF fs \in {"none", "commit_late"}
                 THEN [nvs EXCEPT !.keys = @ \cup {K_UPDATE}]
                 ELSE nvs
    /\ Advance("set_do_update", "upd_select")
    /\ UNCHANGED <<s_post_reset_state, s_nvs_initialized, s_restart_counter_timer,
                   s_wifi_started, wifi_rest, plug, cd, report, parts, hk_resets, obs>>

UpdSelect ==
    /\ pc = "upd_select"
    /\ \E fb \in {"ok", "fail"} :
          LET r == SelectFactoryAndMark(s_post_reset_state, parts,
                                        LIFECYCLE_POST_RESET_REASON_UPDATE, fb) IN
          /\ s_post_reset_state' = r.rtc
          /\ parts' = r.parts
          /\ seq' = [seq EXCEPT !.selected = r.selected,
                                !.steps = Append(@, "select_boot")]
    /\ pc' = "upd_shutdown"
    /\ UNCHANGED <<nvs, s_nvs_initialized, s_restart_counter_timer, s_wifi_started, wifi_rest, plug, cd,
                   report, hk_resets, obs>>

UpdShutdown ==
    /\ pc = "upd_shutdown"
    /\ lifecycle_perform_common_shutdown(FALSE, "upd_delay")
    /\ UNCHANGED <<s_post_reset_state, nvs, s_nvs_initialized, s_restart_counter_timer,
                   cd, report, parts, obs>>

UpdDelay ==
    /\ pc = "upd_delay"
    /\ Advance("delay_before_reset", "upd_reboot")
    /\ UNCHANGED <<s_post_reset_state, nvs, s_nvs_initialized, s_restart_counter_timer,
                   s_wifi_started, wifi_rest, plug, cd, report, parts, hk_resets, obs>>

UpdReboot ==
    /\ pc = "upd_reboot"
    /\ Advance("reboot", "restarting")
    /\ UNCHANGED <<s_post_reset_state, nvs, s_nvs_initialized, s_restart_counter_timer,
                   s_wifi_started, wifi_rest, plug, cd, report, parts, hk_resets, obs>>

\* ---- lifecycle_reset_homekit_and_reboot

HkSelect ==
    /\ pc = "hk_select"
    /\ \E fb \in {"ok", "fail"} :
          parts' = IF fb = "ok" THEN [parts EXCEPT !.boot = parts.running] ELSE parts
    /\ s_post_reset_state' =
          lifecycle_mark_post_reset(s_post_reset_state, LIFECYCLE_POST_RESET_REASON_HOMEKIT)
    /\ seq' = [seq EXCEPT !.steps = @ \o <<"select_boot", "mark_homekit">>]
    /\ pc' = "hk_shutdown"
    /\ UNCHANGED <<nvs, s_nvs_initialized, s_restart_counter_timer, s_wifi_started, wifi_rest, plug, cd,
                   report, hk_resets, obs>>

HkShutdown ==
    /\ pc = "hk_shutdown"
    /\ lifecycle_perform_common_shutdown(TRUE, "hk_delay")
    /\ UNCHANGED <<s_post_reset_state, nvs, s_nvs_initialized, s_restart_counter_timer,
                   cd, report, parts, obs>>

HkDelay ==
    /\ pc = "hk_delay"
    /\ Advance("delay_before_reset", "hk_reboot")
    /\ UNCHANGED <<s_post_reset_state, nvs, s_nvs_initialized, s_restart_counter_timer,
                   s_wifi_started, wifi_rest, plug, cd, report, parts, hk_resets, obs>>

HkReboot ==
    /\ pc = "hk_reboot"
    /\ Advance("reboot", "restarting")
    /\ UNCHANGED <<s_post_reset_state, nvs, s_nvs_initialized, s_restart_counter_timer,
                   s_wifi_started, wifi_rest, plug, cd, report, parts, hk_resets, obs>>

\* ---- lifecycle_factory_reset_and_reboot

\* the store without the keys `gone`
WithoutKeys(store, gone) ==
    [keys |-> store.keys \ gone,
     rc |-> IF K_RESTART \in gone THEN U32(0) ELSE store.rc]

EraseFaults == {"none", "open", "erase", "commit", "commit_late"}

\* clear_nvs_namespace: nvs_erase_all on the namespace, then nvs_commit
clear_nvs_namespace(store, namespace, fe) ==
    IF fe \in {"none", "commit_late"}
    THEN WithoutKeys(store, {k \in store.keys : Namespace(k) = namespace})
    ELSE store

FrResetCounter ==
    /\ pc = "fr_reset_counter"
    /\ \E fi \in InitInputs(s_nvs_initialized), fs \in SaveFaults :
          LET r == lifecycle_reset_restart_counter(s_post_reset_state,
                                                   s_nvs_initialized, nvs, fi, fs) IN
          /\ s_post_reset_state' = r.rtc
          /\ nvs' = r.store
          /\ s_nvs_initialized' = r.inited
          /\ seq' = [seq EXCEPT !.zeroed = r.err,
                                !.steps = Append(@, "reset_restart_counter")]
    /\ pc' = "fr_select"
    /\ UNCHANGED <<s_restart_counter_timer, s_wifi_started, wifi_rest, plug, cd, report, parts, hk_resets,
                   obs>>

FrSelect ==
    /\ pc = "fr_select"
    /\ \E fb \in {"ok", "fail"} :
          LET r == SelectFactoryAndMark(s_post_reset_state, parts,
                                        LIFECYCLE_POST_RESET_REASON_FACTORY, fb) IN
          /\ s_post_reset_state' = r.rtc
          /\ parts' = r.parts
          /\ seq' = [seq EXCEPT !.selected = r.selected,
                                !.steps = Append(@, "select_boot")]
    /\ pc' = "fr_hk_reset"
    /\ UNCHANGED <<nvs, s_nvs_initialized, s_restart_counter_timer, s_wifi_started, wifi_rest, plug, cd,
                   report, hk_resets, obs>>

\* mutant: the common shutdown is left out
FrHomekitReset_skips_shutdown ==
    /\ pc = "fr_hk_reset"
    /\ hk_resets' = hk_resets + 1
    /\ Advance("reset_homekit_store", "fr_erase_wifi")
    /\ UNCHANGED <<s_post_reset_state, nvs, s_nvs_initialized, s_restart_counter_timer,
                   s_wifi_started, wifi_rest, plug, cd, report, parts, obs>>

FrHomekitReset ==
    /\ pc = "fr_hk_reset"
    /\ hk_resets' = hk_resets + 1
    /\ Advance("reset_homekit_store", "fr_shutdown")
    /\ UNCHANGED <<s_post_reset_state, nvs, s_nvs_initialized, s_restart_counter_timer,
                   s_wifi_started, wifi_rest, plug, cd, report, parts, obs>>

FrShutdown ==
    /\ pc = "fr_shutdown"
    /\ lifecycle_perform_common_shutdown(FALSE, "fr_erase_wifi")
    /\ UNCHANGED <<s_post_reset_state, nvs, s_nvs_initialized, s_restart_counter_timer,
                   cd, report, parts, obs>>

\* erase_wifi_credentials: each nvs_erase_key may fail on its own, and nothing is
\* erased when NVS cannot be initialised or the namespace cannot be opened
FrEraseWifi ==
    /\ pc = "fr_erase_wifi"
    /\ \E fi \in InitInputs(s_nvs_initialized), fo \in {"none", "open"},
          gone \in SUBSET {K_SSID, K_PASS} :
          LET init == lifecycle_ensure_nvs_initialized(s_nvs_initialized, nvs, fi) IN
          /\ s_nvs_initialized' = init.inited
          /\ nvs' = IF init.err = ESP_OK /\ fo = "none"
                    THEN WithoutKeys(init.store, gone)
                    ELSE init.store
    /\ Advance("erase_wifi_credentials", "fr_clear_fwcfg")
    /\ UNCHANGED <<s_post_reset_state, s_restart_counter_timer, s_wifi_started, wifi_rest, plug, cd,
                   report, parts, hk_resets, obs>>

FrClearNamespace(at, namespace, step, next) ==
    /\ pc = at
    /\ \E fi \in InitInputs(s_nvs_initialized), fe \in EraseFaults :
          LET init == lifecycle_ensure_nvs_initialized(s_nvs_initialized, nvs, fi) IN
          /\ s_nvs_initialized' = init.inited
          /\ nvs' = IF init.err = ESP_OK
                    THEN clear_nvs_namespace(init.store, namespace, fe)
                    ELSE init.store
    /\ Advance(step, next)
    /\ UNCHANGED <<s_post_reset_state, s_restart_counter_timer, s_wifi_started, wifi_rest, plug, cd,
                   report, parts, hk_resets, obs>>

FrClearFwcfg == FrClearNamespace("fr_clear_fwcfg", "fwcfg", "clear_fw_config", "fr_clear_lcm")

FrClearLcm == FrClearNamespace("fr_clear_lcm", "lcm", "clear_lcm_state", "fr_erase_otadata")

\* erase_otadata_partition
FrEraseOtadata ==
    /\ pc = "fr_erase_otadata"
    /\ \E fe \in {"ok", "fail"} :
          parts' = IF fe = "ok" THEN [parts EXCEPT !.erased = @ \cup {"otadata"}] ELSE parts
    /\ Advance("erase_otadata", "fr_erase_ota_apps")
    /\ UNCHANGED <<s_post_reset_state, nvs, s_nvs_initialized, s_restart_counter_timer,
                   s_wifi_started, wifi_rest, plug, cd, report, hk_resets, obs>>

\* erase_ota_app_partitions: every label is tried; a slot is erased when it is in
\* the partition table and its esp_partition_erase_range succeeds
FrEraseOtaApps ==
    /\ pc = "fr_erase_ota_apps"
    /\ \E failed \in SUBSET parts.ota :
          parts' = [parts EXCEPT !.erased =
                       @ \cup {OtaLabels[i] : i \in {j \in 1..Len(OtaLabels) :
                                  OtaLabels[j] \in parts.ota \ failed}}]
    /\ Advance("erase_ota_apps", "fr_wifi_restore")
    /\ UNCHANGED <<s_post_reset_state, nvs, s_nvs_initialized, s_restart_counter_timer,
                   s_wifi_started, wifi_rest, plug, cd, report, hk_resets, obs>>

\* esp_wifi_restore: its result is only logged
FrWifiRestore ==
    /\ pc = "fr_wifi_restore"
    /\ Advance("restore_wifi_defaults", "fr_erase_nvs")
    /\ UNCHANGED <<s_post_reset_state, nvs, s_nvs_initialized, s_restart_counter_timer,
                   s_wifi_started, wifi_rest, plug, cd, report, parts, hk_resets, obs>>

\* erase_nvs_partition: nvs_flash_deinit, the flag cleared, nvs_flash_erase
FrEraseNvs ==
    /\ pc = "fr_erase_nvs"
    /\ s_nvs_initialized' = FALSE
    /\ \E fe \in {"ok", "fail"} : nvs' = IF fe = "ok" THEN EmptyStore ELSE nvs
    /\ Advance("erase_nvs_partition", "fr_delay")
    /\ UNCHANGED <<s_post_reset_state, s_restart_counter_timer, s_wifi_started, wifi_rest, plug, cd,
                   report, parts, hk_resets, obs>>

FrDelay ==
    /\ pc = "fr_delay"
    /\ Advance("delay_before_reset", "fr_reboot")
    /\ UNCHANGED <<s_post_reset_state, nvs, s_nvs_initialized, s_restart_counter_timer,
                   s_wifi_started, wifi_rest, plug, cd, report, parts, hk_resets, obs>>

FrReboot ==
    /\ pc = "fr_reboot"
    /\ Advance("reboot", "restarting")
    /\ UNCHANGED <<s_post_reset_state, nvs, s_nvs_initialized, s_restart_counter_timer,
                   s_wifi_started, wifi_rest, plug, cd, report, parts, hk_resets, obs>>

\* ------------------------------------------------------------- specification

UpdateSteps == UpdSetFlag \/ UpdSelect \/ UpdShutdown \/ UpdDelay \/ UpdReboot

HomekitSteps == HkSelect \/ HkShutdown \/ HkDelay \/ HkReboot

FactorySteps ==
    \/ FrResetCounter \/ FrSelect \/ FrHomekitReset \/ FrShutdown \/ FrEraseWifi
    \/ FrClearFwcfg \/ FrClearLcm \/ FrEraseOtadata \/ FrEraseOtaApps
    \/ FrWifiRestore \/ FrEraseNvs \/ FrDelay \/ FrReboot

CrashLoopSteps == CountdownStep \/ CountdownDone

\* an environment of the boot protocol and of the resets: how many boots are
\* followed, the faults the boot protocol meets, whether obs.lost is followed,
\* and whether resets wait for the timer
EnvAll ==
    [limit |-> MaxRestarts, init |-> InitOutcomes, load |-> LoadFaults,
     save |-> SaveFaults, timer |-> TimerFaults, track |-> FALSE, debounced |-> FALSE,
     history |-> FALSE]

\* one session of the program, from a reset of the CPU to the call of
\* esp_restart or abort, with every fault and with the timer
Next ==
    \/ AppMainNvsInit(EnvAll)
    \/ lifecycle_log_post_reset_state(EnvAll)
    \/ CrashLoopSteps
    \/ AppMainRest
    \/ ButtonLongPress \/ OtaTrigger \/ HomekitResetRequest
    \/ UpdateSteps \/ HomekitSteps \/ FactorySteps
    \/ lifecycle_restart_counter_timeout

Spec == InitAnyReset /\ [][Next]_vars

\* restarts in a row: the timer is armed and never fires before the next reset,
\* and nobody asks for a sequence
EnvRestarts == [EnvAll EXCEPT !.timer = {"ok"}, !.track = TRUE]

NextRestarts ==
    \/ AppMainNvsInit(EnvRestarts)
    \/ lifecycle_log_post_reset_state(EnvRestarts)
    \/ CrashLoopSteps
    \/ AppMainRest
    \/ FactorySteps
    \/ WarmReset(EnvRestarts) \/ PowerCycle(EnvRestarts)

SpecRestarts == Init /\ [][NextRestarts]_vars

\* restarts in a row by power cycles: the store is kept (no recovery erase) and
\* every write of the count by the boot protocol succeeds
EnvPowerCycles ==
    [EnvRestarts EXCEPT !.limit = MaxPowerCycles, !.init = InitOutcomes \ {"recovered"},
                        !.save = {"none"}]

NextPowerCycles ==
    \/ AppMainNvsInit(EnvPowerCycles)
    \/ lifecycle_log_post_reset_state(EnvPowerCycles)
    \/ CrashLoopSteps
    \/ AppMainRest
    \/ FactorySteps
    \/ PowerCycle(EnvPowerCycles)

SpecPowerCycles == Init /\ [][NextPowerCycles]_vars

\* well-separated restarts: the timer fires in every session before the reset
EnvDebounced ==
    [EnvAll EXCEPT !.limit = MaxDebounced, !.timer = {"ok"}, !.debounced = TRUE]

NextDebounced ==
    \/ AppMainNvsInit(EnvDebounced)
    \/ lifecycle_log_post_reset_state(EnvDebounced)
    \/ AppMainRest
    \/ lifecycle_restart_counter_timeout
    \/ WarmReset(EnvDebounced) \/ PowerCycle(EnvDebounced)

SpecDebounced == Init /\ [][NextDebounced]_vars

\* updates asked for by the application, each followed by the reset esp_restart
\* makes; the device starts fresh or after eight restarts in a row
EnvReason == [EnvAll EXCEPT !.limit = MaxReasonBoots, !.timer = {"ok"}]

InitReason ==
    \E n \in {0, RestartThreshold - 2} :
       AtReset([ZeroRtc EXCEPT !.restart_count = U32(n)],
               [keys |-> IF n = 0 THEN {K_SSID, K_PASS}
                         ELSE {K_SSID, K_PASS, K_FWVER, K_RESTART},
                rc |-> U32(n)])

NextReason ==
    \/ AppMainNvsInit(EnvReason)
    \/ lifecycle_log_post_reset_state(EnvReason)
    \/ CrashLoopSteps
    \/ AppMainRest
    \/ OtaTrigger
    \/ UpdateSteps \/ FactorySteps
    \/ WarmReset(EnvReason)

SpecReason == InitReason /\ [][NextReason]_vars

\* keys of the store that belong to `namespace`
KeysOf(store, namespace) == {k \in store.keys : Namespace(k) = namespace}

\* the step the factory reset takes from pc did what it is there for: the zero
\* count was written, the keys it erases are gone, the regions it erases are
\* erased (the selection of the boot slot is left free: a table without a
\* factory slot is not a failure of the sequence)
FrStepSucceeds ==
    /\ pc = "fr_reset_counter" => seq'.zeroed = ESP_OK
    /\ pc = "fr_erase_wifi" => s_nvs_initialized' /\ KeysOf(nvs', "wifi_cfg") = {}
    /\ pc = "fr_clear_fwcfg" => s_nvs_initialized' /\ KeysOf(nvs', "fwcfg") = {}
    /\ pc = "fr_clear_lcm" => s_nvs_initialized' /\ KeysOf(nvs', "lcm") = {}
    /\ pc = "fr_erase_otadata" => "otadata" \in parts'.erased
    /\ pc = "fr_erase_ota_apps" => parts.ota \subseteq parts'.erased
    /\ pc = "fr_erase_nvs" => nvs' = EmptyStore

\* a session in which the factory reset, asked for by the button or started by
\* the boot protocol, meets no failure in its own steps; the boot before it and
\* the timer callback meet every fault
NextFactoryReset ==
    \/ AppMainNvsInit(EnvAll)
    \/ lifecycle_log_post_reset_state(EnvAll)
    \/ CrashLoopSteps
    \/ AppMainRest
    \/ ButtonLongPress
    \/ FactorySteps /\ FrStepSucceeds
    \/ lifecycle_restart_counter_timeout

SpecFactoryReset == InitAnyReset /\ [][NextFactoryReset]_vars

\* the Wi-Fi manager after the first boot of a device with or without stored
\* credentials: the application calls wifi_start and wifi_stop as it likes, the
\* event loop delivers the events of the driver, every call into the store and
\* the driver may fail; the boot protocol meets no fault and the timer is left
\* out
EnvWifi ==
    [EnvAll EXCEPT !.init = {"ok"}, !.load = {"none"}, !.save = {"none"},
                   !.timer = {"ok"}]

InitWifi ==
    \E keys \in SUBSET {K_SSID, K_PASS}, password \in Passwords :
       /\ K_PASS \notin keys => password = <<>>
       /\ AtResetWith(ZeroRtc, [keys |-> keys, rc |-> U32(0)], password)
       /\ parts.factory

NextWifi ==
    \/ AppMainNvsInit(EnvWifi)
    \/ lifecycle_log_post_reset_state(EnvWifi)
    \/ AppMainConfigure
    \/ AppWifiStart
    \/ WifiStartCall
    \/ WifiStartStore
    \/ WifiStopCall
    \/ WifiStopStep
    \/ WifiEvent

SpecWifi == InitWifi /\ [][NextWifi]_vars

\* one boot from any content of the two counter tiers: the RTC word is not
\* initialised at power-on and the NVS word is whatever an earlier boot wrote.
\* The values sit at both ends of the 32-bit range and on both sides of a
\* carry between the halves; the store is read without a fault and the write
\* of the new count may fail
CounterValues ==
    {U32(0), U32(1), U32(RestartThreshold - 2), U32(65535), U32(65536),
     [hi |-> 1, lo |-> 65535], [hi |-> 65535, lo |-> 65534], UINT32_MAX}

EnvCounter ==
    [EnvAll EXCEPT !.init = {"ok"}, !.load = {"none"}, !.save = {"none", "set"},
                   !.timer = {"ok"}]

InitCounter ==
    \E r \in CounterValues, d \in CounterValues, keys \in SUBSET {K_RESTART} :
       /\ K_RESTART \notin keys => d = U32(0)
       /\ AtReset([ZeroRtc EXCEPT !.restart_count = r], [keys |-> keys, rc |-> d])
       /\ parts.factory

NextCounter ==
    \/ AppMainNvsInit(EnvCounter)
    \/ lifecycle_log_post_reset_state(EnvCounter)
    \/ AppMainRest

SpecCounter == InitCounter /\ [][NextCounter]_vars

\* one boot from a count below, next to, at and above the threshold, as a
\* reset below the threshold or during the countdown leaves it in both tiers,
\* with every fault of the store, and the factory reset the boot starts
ThresholdCounts == {0, RestartThreshold - 2, RestartThreshold - 1, RestartThreshold}

EnvThreshold == [EnvAll EXCEPT !.timer = {"ok"}]

InitThreshold ==
    \E n \in ThresholdCounts :
       AtReset([ZeroRtc EXCEPT !.restart_count = U32(n)],
               [keys |-> IF n = 0 THEN {K_SSID, K_PASS}
                         ELSE {K_SSID, K_PASS, K_FWVER, K_RESTART},
                rc |-> U32(n)])

NextThreshold ==
    \/ AppMainNvsInit(EnvThreshold)
    \/ lifecycle_log_post_reset_state(EnvThreshold)
    \/ CrashLoopSteps
    \/ AppMainRestWith({"none"}, {"none"})
    \/ FactorySteps

SpecThreshold == InitThreshold /\ [][NextThreshold]_vars

\* boots in a row from the first power-on with every fault of the store, warm
\* resets and power cycles, and the timer; the last reported count is followed
EnvMonotonic ==
    [EnvAll EXCEPT !.limit = MaxMonotonicBoots, !.timer = {"ok"}, !.history = TRUE]

NextMonotonic ==
    \/ AppMainNvsInit(EnvMonotonic)
    \/ lifecycle_log_post_reset_state(EnvMonotonic)
    \/ AppMainRestWith({"none"}, {"none"})
    \/ lifecycle_restart_counter_timeout
    \/ WarmReset(EnvMonotonic) \/ PowerCycle(EnvMonotonic)

SpecMonotonic == Init /\ [][NextMonotonic]_vars

\* updates and factory resets near the threshold, each followed by the reset
\* esp_restart ends in; the store never fails, the selection of the factory
\* slot may; the reason that the last sequence marked is followed
EnvMarks ==
    [EnvAll EXCEPT !.limit = MaxReasonBoots, !.init = {"ok"}, !.load = {"none"},
                   !.save = {"none"}, !.timer = {"ok"}, !.history = TRUE]

NextMarks ==
    \/ AppMainNvsInit(EnvMarks)
    \/ lifecycle_log_post_reset_state(EnvMarks)
    \/ CrashLoopSteps
    \/ AppMainRestWith({"none"}, {"none"})
    \/ OtaTrigger
    \/ UpdateSteps \/ FactorySteps
    \/ WarmReset(EnvMarks)

SpecMarks == InitReason /\ [][NextMarks]_vars

\* the plug after a boot without faults: HomeKit writes of the ON
\* characteristic, button presses and identify requests in any order, every
\* task running at its own pace
EnvPlug ==
    [EnvAll EXCEPT !.init = {"ok"}, !.load = {"none"}, !.save = {"none"},
                   !.timer = {"ok"}]

NextPlug ==
    \/ AppMainNvsInit(EnvPlug)
    \/ lifecycle_log_post_reset_state(EnvPlug)
    \/ AppMainRestWith({"none"}, {"none"})
    \/ AccessoryIdentify
    \/ IdentifyStep
    \/ RelaySetCall
    \/ RelaySetRelayWrite
    \/ RelaySetLedWrite

SpecPlug == Init /\ [][NextPlug]_vars

\* the trigger characteristic after a boot without faults of the boot
\* protocol: the HomeKit server calls lifecycle_handle_ota_trigger with any
\* characteristic and value, and the update sequence it starts runs with every
\* fault
NextTrigger ==
    \/ AppMainNvsInit(EnvPlug)
    \/ lifecycle_log_post_reset_state(EnvPlug)
    \/ AppMainRest
    \/ OtaTriggerAnyWrite
    \/ UpdateSteps

SpecTrigger == Init /\ [][NextTrigger]_vars

\* deliberate reboots: boots without faults of the store, each followed by an
\* update request, an identity reset or a factory reset whose steps meet no
\* failure, and the warm reset it ends in, while the timer fires when it likes;
\* the last boot is remembered
EnvDeliberate ==
    [EnvAll EXCEPT !.limit = MaxMonotonicBoots, !.init = {"ok"}, !.load = {"none"},
                   !.save = {"none"}, !.timer = {"ok"}, !.history = TRUE]

NextDeliberate ==
    \/ AppMainNvsInit(EnvDeliberate)
    \/ lifecycle_log_post_reset_state(EnvDeliberate)
    \/ CrashLoopSteps
    \/ AppMainRestWith({"none"}, {"none"})
    \/ OtaTrigger
    \/ HomekitResetRequest
    \/ ButtonLongPress
    \/ UpdateSteps \/ HomekitSteps
    \/ FactorySteps /\ FrStepSucceeds
    \/ lifecycle_restart_counter_timeout
    \/ WarmReset(EnvDeliberate)

SpecDeliberate == InitAnyReset /\ [][NextDeliberate]_vars

\* boots whose timer may fail to be created or started: up to
\* MaxTimerFaultBoots boots in a row from a count of 0 or 9, the write of the count failing or not, each
\* session ended by a warm reset or a loss of power, by itself or
\* after a factory reset whose steps meet no failure; the last boot is
\* remembered
EnvTimerFault ==
    [EnvAll EXCEPT !.limit = MaxTimerFaultBoots, !.init = {"ok"}, !.load = {"none"},
                   !.save = {"none", "commit"}, !.history = TRUE]

NextTimerFault ==
    \/ AppMainNvsInit(EnvTimerFault)
    \/ lifecycle_log_post_reset_state(EnvTimerFault)
    \/ CrashLoopSteps
    \/ AppMainRestWith({"none"}, {"none"})
    \/ ButtonLongPress
    \/ FactorySteps /\ FrStepSucceeds
    \/ lifecycle_restart_counter_timeout
    \/ WarmReset(EnvTimerFault)
    \/ PowerCycle(EnvTimerFault)

SpecTimerFault == InitAnyReset /\ [][NextTimerFault]_vars

\* one boot from any content of the validity tag and the reason word of RTC
\* memory, below and at the threshold, with every fault of the store: the words
\* sit at both ends of the 32-bit range and on both sides of the range of the
\* enumeration
MagicWords == {U32(0), k_post_reset_magic, U32Inc(k_post_reset_magic), UINT32_MAX}

ReasonWords == {-2147483647 - 1, -1, 0, 1, 2, 3, 4, 2147483647}

InitPeek ==
    \E magic \in MagicWords, reason \in ReasonWords, n \in {0, RestartThreshold - 1} :
       AtReset([magic |-> magic, reason |-> reason, restart_count |-> U32(n)],
               [keys |-> {K_SSID, K_PASS}, rc |-> U32(0)])

NextPeek ==
    \/ AppMainNvsInit(EnvThreshold)
    \/ lifecycle_log_post_reset_state(EnvThreshold)
    \/ CrashLoopSteps
    \/ AppMainRestWith({"none"}, {"none"})

SpecPeek == InitPeek /\ [][NextPeek]_vars

\* the two public functions that take pointers: in a session without faults of
\* the boot protocol the application calls them with null and other arguments,
\* before and after app_main has configured the accessory, with every fault of
\* the store
NextEntryPoints ==
    \/ AppMainNvsInit(EnvPlug)
    \/ lifecycle_log_post_reset_state(EnvPlug)
    \/ AppMainRestWith(FwFaults, {"none"})
    \/ InitFirmwareRevisionCall
    \/ ConfigureHomekitCall

SpecEntryPoints == Init /\ [][NextEntryPoints]_vars

\* wifi_stop alone: after a boot without faults of the store the application
\* calls wifi_stop, each of whose five calls returns any of StopErrors; the
\* returned codes are kept
NextStop ==
    \/ AppMainNvsInit(EnvWifi)
    \/ lifecycle_log_post_reset_state(EnvWifi)
    \/ AppMainConfigure
    \/ AppWifiStart
    \/ WifiStartStore
    \/ WifiStopCall
    \/ WifiStopStepWith(StopErrors, TRUE)

SpecStop == InitWifi /\ [][NextStop]_vars

\* the three sequences up to the end of their common shutdown, in a build with
\* or without wifi_config_shutdown, with any result of mdns_service_remove
\* and any failing call of wifi_stop, after a boot that started Wi-Fi or failed to
NextShutdown ==
    \/ AppMainNvsInit(EnvPlug)
    \/ lifecycle_log_post_reset_state(EnvPlug)
    \/ AppMainRestWith({"none"}, AppWifiFaults)
    \/ ButtonLongPress \/ OtaTrigger \/ HomekitResetRequest
    \/ UpdSetFlag \/ UpdSelect \/ HkSelect
    \/ FrResetCounter \/ FrSelect \/ FrHomekitReset
    \/ CommonShutdownCall

SpecShutdown == Init /\ [][NextShutdown]_vars

\* --------------------------------------------------------------------- claims

\* the state lifecycle_mark_post_reset(reason) leaves in RTC memory
Marked(reason) ==
    /\ s_post_reset_state.magic = k_post_reset_magic
    /\ s_post_reset_state.reason = reason

\* the main task has just left the boot protocol
JustBooted == pc \in {"configure", "countdown"}

\* the count reached this boot: every reset so far kept RTC memory, or the
\* boot protocol never failed to read or write the count in NVS
CountKept == obs.kind \in {"none", "warm"} \/ ~obs.lost

\* where the main task stands inside a deliberate-reboot sequence
SequencePcs ==
    {"upd_flag", "upd_select", "upd_shutdown", "upd_delay", "upd_reboot",
     "hk_select", "hk_shutdown", "hk_delay", "hk_reboot",
     "fr_reset_counter", "fr_select", "fr_hk_reset", "fr_shutdown", "fr_erase_wifi",
     "fr_clear_fwcfg", "fr_clear_lcm", "fr_erase_otadata", "fr_erase_ota_apps",
     "fr_wifi_restore", "fr_erase_nvs", "fr_delay", "fr_reboot"}

\* C1 as stated: ten boots in a row without a firing of the timer start the
\* automatic factory reset on the tenth boot and on no other; right after the
\* sequence has reset the counter the count is 0 in RTC memory and in NVS, and
\* the eleventh boot does not start the factory reset again.
C1_TenBootsResetOnce ==
    /\ obs.boots < RestartThreshold => obs.auto_fr = 0 /\ pc # "countdown"
    /\ obs.boots = RestartThreshold =>
          \/ pc = "countdown" /\ obs.auto_fr = 0
          \/ pc # "countdown" /\ obs.auto_fr = 1
    /\ seq.auto /\ pc = "fr_select" =>
          /\ s_post_reset_state.restart_count = U32(0)
          /\ DurableCount(nvs) = U32(0)
    /\ obs.boots = RestartThreshold + 1 => obs.auto_fr = 1 /\ pc # "countdown"

\* C1, amended: ten boots in a row without a firing of the timer, in which
\* every reset kept RTC memory or no read or write of the count in NVS failed,
\* start the automatic factory reset on the tenth boot and on no other; right
\* after the sequence has reset the counter the count is 0 in RTC memory, and 0
\* in NVS when that write succeeded; the eleventh boot does not start the
\* factory reset again when it finds the count 0 in NVS.
C1_KeptCountResetsOnce ==
    /\ [](CountKept /\ obs.boots < RestartThreshold => obs.auto_fr = 0 /\ pc # "countdown")
    /\ [](CountKept /\ obs.boots = RestartThreshold =>
             \/ pc = "countdown" /\ obs.auto_fr = 0
             \/ pc # "countdown" /\ obs.auto_fr = 1)
    /\ [](seq.auto /\ pc = "fr_select" =>
             /\ s_post_reset_state.restart_count = U32(0)
             /\ seq.zeroed = ESP_OK => DurableCount(nvs) = U32(0))
    /\ [][pc = "log_post_reset" /\ obs.boots = RestartThreshold /\ obs.auto_fr = 1
             /\ DurableCount(nvs) = U32(0)
          => pc' = "configure" /\ obs'.auto_fr = 1 /\ report'.count = U32(1)]_vars

\* C1: the eleventh boot by warm resets, after the one factory reset, counts 1
C1_Witness ==
    /\ obs.boots = RestartThreshold + 1
    /\ obs.kind = "warm"
    /\ obs.lost
    /\ obs.auto_fr = 1
    /\ pc = "configure"
    /\ report.count = U32(1)

\* C2 as stated: when the timer fires in every session before the reset, every
\* boot reports the count 1 and takes the normal path, whether or not the
\* timer's write of 0 to NVS succeeded.
C2_DebouncedBootsReportOne ==
    JustBooted => report.count = U32(1) /\ pc = "configure"

\* C2, amended: when the timer fires in every session before the reset and its
\* write of 0 to NVS succeeds, every boot reports the count 1 and takes the
\* normal path, never the crash-loop path.
C2_DebouncedAndZeroedBootsReportOne ==
    [][pc = "log_post_reset" /\ (obs.boots = 0 \/ obs.tfire = "ok")
       => report'.count = U32(1) /\ pc' = "configure"]_vars

\* C2: a third boot reports 1 after two sessions in which the timer fired
C2_Witness ==
    /\ obs.boots = 3
    /\ pc = "run"
    /\ report.count = U32(1)
    /\ obs.tfire = "ok"

\* C3 as stated: the boot increments from the larger of the RTC count and the
\* count in NVS.
C3_StartIsMax ==
    [][pc = "log_post_reset" =>
          LET n == s_post_reset_state.restart_count
              m == DurableCount(nvs)
          IN report'.count = U32Inc(IF U32Gt(m, n) THEN m ELSE n)]_vars

\* C3, amended: the boot increments from the larger of the RTC count and the
\* count in NVS when the read of NVS succeeds, and from the RTC count when it
\* fails.
C3_StartIsMaxOfWhatWasRead ==
    [][pc = "log_post_reset" =>
          LET n == s_post_reset_state.restart_count
              m == DurableCount(nvs)
          IN report'.count =
                U32Inc(IF report'.loaded = ESP_OK /\ U32Gt(m, n) THEN m ELSE n)]_vars

\* C3: RTC memory held 2 and NVS 1, the read succeeded, and the boot counted 3
C3_Witness ==
    /\ pc = "configure"
    /\ report.count = U32(3)
    /\ report.loaded = ESP_OK
    /\ report.saved # ESP_OK
    /\ DurableCount(nvs) = U32(1)

\* C4: a boot that finds no count in RTC memory and none in NVS leaves the count
\* 1 in RTC memory and, when its write succeeds, 1 in NVS.
C4_FirstBootCountsOne ==
    [][pc = "log_post_reset" /\ s_post_reset_state.restart_count = U32(0)
          /\ DurableCount(nvs) = U32(0)
       => /\ s_post_reset_state'.restart_count = U32(1)
          /\ report'.count = U32(1)
          /\ report'.saved = ESP_OK =>
                K_RESTART \in nvs'.keys /\ nvs'.rc = U32(1)]_vars

\* C4: the boot after a completed factory reset has counted 1 in both tiers
C4_Witness ==
    /\ obs.auto_fr = 1
    /\ JustBooted
    /\ report.saved = ESP_OK
    /\ s_post_reset_state.restart_count = U32(1)
    /\ K_RESTART \in nvs.keys
    /\ nvs.rc = U32(1)

\* C5 as stated: once the timer has fired in a session, the count is 0 in RTC
\* memory and in NVS.
C5_TimerZeroesBothTiers ==
    obs.tfire # "none" =>
       /\ s_post_reset_state.restart_count = U32(0)
       /\ DurableCount(nvs) = U32(0)

\* C5, amended: once the timer has fired in a session, the count is 0 in RTC
\* memory, and 0 in NVS when the timer's write to NVS succeeded.
C5_TimerZeroesWhatItCanWrite ==
    obs.tfire # "none" =>
       /\ s_post_reset_state.restart_count = U32(0)
       /\ obs.tfire = "ok" => DurableCount(nvs) = U32(0)

\* C5: the timer has fired in a running application and NVS holds the count 0
C5_Witness ==
    /\ obs.tfire = "ok"
    /\ pc = "run"
    /\ report.count = U32(1)
    /\ K_RESTART \in nvs.keys
    /\ nvs.rc = U32(0)
    /\ s_post_reset_state.restart_count = U32(0)

\* C6 as stated: when every reset is a power cycle, every write of the count
\* succeeds and the timer never fires, the k-th boot reports k, and the tenth
\* starts the automatic factory reset.
C6_PowerCyclesCount ==
    /\ JustBooted /\ obs.boots <= RestartThreshold => report.count = U32(obs.boots)
    /\ obs.boots = RestartThreshold => pc = "countdown" \/ obs.auto_fr = 1

\* C6, amended: when every reset is a power cycle, every read and every write
\* of the count succeeds and the timer never fires, the k-th boot reports k,
\* and the tenth starts the automatic factory reset.
C6_PowerCyclesCountWhenRead ==
    ~obs.lost =>
       /\ JustBooted /\ obs.boots <= RestartThreshold => report.count = U32(obs.boots)
       /\ obs.boots = RestartThreshold => pc = "countdown" \/ obs.auto_fr = 1

\* C6: the tenth boot by power cycles has started the factory reset
C6_Witness ==
    /\ obs.boots = RestartThreshold
    /\ obs.kind = "cold"
    /\ ~obs.lost
    /\ seq.auto
    /\ pc = "fr_select"

\* C7: a deliberate-reboot sequence, once started, can always take its next
\* step, every step leads to a later step of the same sequence or to the
\* reboot, the number of steps is bounded, and the reboot is called exactly
\* once, as the last step, whatever fails.
C7_SequencesEndInOneReboot ==
    /\ [](pc \in SequencePcs =>
             /\ ENABLED (UpdateSteps \/ HomekitSteps \/ FactorySteps)
             /\ \A i \in DOMAIN seq.steps : seq.steps[i] # "reboot")
    /\ [](pc = "restarting" =>
             /\ Cardinality({i \in DOMAIN seq.steps : seq.steps[i] = "reboot"}) = 1
             /\ seq.steps[Len(seq.steps)] = "reboot")
    /\ [](Len(seq.steps) <= 18)
    /\ [][pc' # pc /\ pc \in SequencePcs
          => /\ pc' \in SequencePcs \cup {"restarting"}
             /\ seq'.kind = seq.kind
             /\ Len(seq.steps) < Len(seq'.steps)]_vars

\* C7: a factory reset in which the selection and every erase failed has
\* called the reboot
C7_Witness ==
    /\ pc = "restarting"
    /\ seq.kind = "factory"
    /\ parts.factory
    /\ ~seq.selected
    /\ parts.erased = {}
    /\ {K_SSID, K_PASS, K_RESTART} \subseteq nvs.keys

C9_MarkFollowsSelection ==
    /\ [][pc = "upd_select" /\ pc' # pc
          => /\ Marked(LIFECYCLE_POST_RESET_REASON_UPDATE)' <=> parts'.boot = "factory"
             /\ parts'.boot = "factory" => parts.factory
             /\ parts'.boot # "factory" => s_post_reset_state' = s_post_reset_state]_vars
    /\ [][pc = "fr_select" /\ pc' # pc
          => /\ Marked(LIFECYCLE_POST_RESET_REASON_FACTORY)' <=> parts'.boot = "factory"
             /\ parts'.boot = "factory" => parts.factory
             /\ parts'.boot # "factory" => s_post_reset_state' = s_post_reset_state]_vars
    /\ [][pc = "hk_select" /\ pc' # pc
          => Marked(LIFECYCLE_POST_RESET_REASON_HOMEKIT)']_vars

\* C9: an update whose selection of the existing factory slot failed has
\* rebooted with no reason marked
C9_Witness ==
    /\ pc = "restarting"
    /\ seq.kind = "update"
    /\ parts.factory
    /\ parts.boot # "factory"
    /\ lifecycle_peek_post_reset_reason(s_post_reset_state) = LIFECYCLE_POST_RESET_NONE

\* C10: the calls made so far by a factory reset are a prefix of: counter
\* reset, selection of the boot slot, reset of the pairing store, common
\* shutdown, erase of the Wi-Fi credentials, of the firmware namespace, of the
\* lifecycle namespace, of otadata, of the OTA slots, restore of the Wi-Fi
\* stack, erase of the NVS partition, delay, reboot; and no partition is erased
\* before the boot slot was selected, the pairing store reset and the
\* credentials erased.
C10_FactoryResetOrder ==
    LET order == <<"reset_restart_counter", "select_boot", "reset_homekit_store">>
                 \o CommonShutdownSteps(FALSE)
                 \o <<"erase_wifi_credentials", "clear_fw_config", "clear_lcm_state",
                      "erase_otadata", "erase_ota_apps", "restore_wifi_defaults",
                      "erase_nvs_partition", "delay_before_reset", "reboot">>
        done == {seq.steps[i] : i \in DOMAIN seq.steps}
    IN seq.kind = "factory" =>
          /\ Len(seq.steps) <= Len(order)
          /\ seq.steps = SubSeq(order, 1, Len(seq.steps))
          /\ pc = "restarting" => seq.steps = order
          /\ parts.erased # {} \/ "erase_nvs_partition" \in done =>
                /\ {"select_boot", "erase_wifi_credentials"} \subseteq done
                /\ hk_resets > 0

\* C10: a factory reset asked for by the button has erased NVS and the OTA
\* slots and rebooted
C10_Witness ==
    /\ pc = "restarting"
    /\ seq.kind = "factory"
    /\ ~seq.auto
    /\ nvs = EmptyStore
    /\ {"otadata", "ota_0", "ota_1"} \subseteq parts.erased

\* C11 as stated: when every step of the factory reset succeeds, at the call of
\* the reboot NVS holds no Wi-Fi credential, no key of the firmware namespace
\* and no key of the lifecycle namespace, every OTA slot of the table and
\* otadata are erased, the count in RTC memory is 0, and wifi_start on the next
\* boot would find no credentials.
C11_FactoryResetLeavesNothing ==
    pc = "restarting" /\ seq.kind = "factory" =>
       /\ KeysOf(nvs, "wifi_cfg") = {}
       /\ KeysOf(nvs, "fwcfg") = {}
       /\ KeysOf(nvs, "lcm") = {}
       /\ parts.ota \cup {"otadata"} \subseteq parts.erased
       /\ s_post_reset_state.restart_count = U32(0)
       /\ nvs_load_wifi(TRUE, nvs, stored_password, "ok", "none").err
             = ESP_ERR_NVS_NOT_FOUND

\* what the update and the HomeKit-reset sequences are not there to touch: the
\* Wi-Fi credentials, the firmware namespace, the partition table, the running
\* slot and the erased regions
KeptBySequences(store, pt) ==
    [wifi_cfg |-> KeysOf(store, "wifi_cfg"), fwcfg |-> KeysOf(store, "fwcfg"),
     factory |-> pt.factory, ota |-> pt.ota, running |-> pt.running,
     erased |-> pt.erased]

\* C12 as stated: no step taken while the update or the HomeKit-reset sequence
\* runs changes the Wi-Fi credentials, the firmware namespace, otadata (the
\* next-boot slot it records and its erasure) or any slot; the update sequence
\* reboots without a reset of the pairing store, the HomeKit-reset sequence
\* with exactly one.
C12_SequencesChangeNothingElse ==
    /\ [][seq.kind \in {"update", "homekit"}
          => /\ KeptBySequences(nvs', parts') = KeptBySequences(nvs, parts)
             /\ parts'.boot = parts.boot]_vars
    /\ [](seq.kind = "update" => hk_resets = 0)
    /\ [](seq.kind = "homekit" /\ pc = "restarting" => hk_resets = 1)
    /\ [](seq.kind = "homekit" => hk_resets <= 1)

\* C12, amended: as C12, but otadata is changed by the selection of the
\* next-boot slot that each sequence makes as its own step (the factory slot by
\* the update, the running slot by the HomeKit reset) and by nothing else.
C12_SequencesChangeOnlyTheBootSlot ==
    /\ [][seq.kind \in {"update", "homekit"}
          => /\ KeptBySequences(nvs', parts') = KeptBySequences(nvs, parts)
             /\ parts'.boot # parts.boot =>
                   \/ pc = "upd_select" /\ parts'.boot = "factory"
                   \/ pc = "hk_select" /\ parts'.boot = parts.running]_vars
    /\ [](seq.kind = "update" => hk_resets = 0)
    /\ [](seq.kind = "homekit" /\ pc = "restarting" => hk_resets = 1)
    /\ [](seq.kind = "homekit" => hk_resets <= 1)

\* C12: a HomeKit reset has rebooted after one reset of the pairing store, the
\* timer having written the count meanwhile, with credentials and firmware
\* version still stored
C12_Witness ==
    /\ pc = "restarting"
    /\ seq.kind = "homekit"
    /\ hk_resets = 1
    /\ obs.tfire = "ok"
    /\ {K_SSID, K_PASS, K_FWVER} \subseteq nvs.keys

\* a step in which wifi_start is called: it runs to its return, or to the
\* return of esp_wifi_start
WifiStartCalled ==
    /\ pc \in {"app_wifi_start", "run"}
    /\ wifi_call'.last.op = "wifi_start"
    /\ wifi_call' # wifi_call

\* the step has made no call into the netif layer, the event loop or the
\* driver and has left the manager stopped with the callback it had
NoInterfaceInitialization ==
    /\ wifi_call'.last.calls = <<"nvs_load_wifi">>
    /\ radio' = radio
    /\ s_wifi_netif' = s_wifi_netif
    /\ s_wifi_on_ready_cb' = s_wifi_on_ready_cb
    /\ ~s_wifi_started'
    /\ pc' = "run"

C14_StartOnStartedOnlyStoresCallback ==
    [][(WifiStartCalled /\ s_wifi_started)
         => /\ wifi_call'.last.err = ESP_OK
            /\ wifi_call'.last.calls = <<>>
            /\ s_wifi_on_ready_cb' = wifi_call'.on_ready
            /\ s_wifi_started'
            /\ radio' = radio
            /\ s_wifi_netif' = s_wifi_netif
            /\ nvs' = nvs
            /\ s_nvs_initialized' = s_nvs_initialized
            /\ pc' = "run"]_vars

\* the application has called wifi_start with another callback on the manager
\* app_main had started, and the station start of the one radio start is
\* still the only one posted
C14_Witness ==
    /\ wifi_call.last.op = "wifi_start"
    /\ wifi_call.last.started
    /\ wifi_call.last.calls = <<>>
    /\ s_wifi_started
    /\ s_wifi_on_ready_cb = "on_ready_2"
    /\ radio.driver = "started"
    /\ radio.sta_start

\* the event loop delivers IP_EVENT_STA_GOT_IP: the link, which was
\* connecting, is up
GotIpDelivered == radio.link = "connecting" /\ radio'.link = "up"

\* C15: every address-acquired event that is delivered to wifi_event_handler
\* once esp_wifi_start has returned, the manager being started or about to be
\* marked so, invokes exactly once the callback passed to wifi_start.
C15_GotIpInvokesCallbackOnce ==
    [][(/\ GotIpDelivered
        /\ "IP_EVENT" \in radio.handlers
        /\ s_wifi_started \/ pc = "wifi_start_store")
         => wifi_call'.last.calls = <<wifi_call.on_ready>>]_vars

\* the event loop delivers WIFI_EVENT_STA_DISCONNECTED
DisconnectDelivered == wifi_call'.streak = wifi_call.streak + 1

\* the event loop delivers the WIFI_EVENT_STA_START that esp_wifi_start posted
StaStartDelivered ==
    /\ wifi_call'.last.op = "WIFI_EVENT_STA_START"
    /\ radio.sta_start
    /\ ~radio'.sta_start

\* C16: on a started manager that is not in the course of being stopped every
\* disconnect event, however many came before it without an address in
\* between, makes the handler call esp_wifi_connect once and puts the link back
\* to connecting; the station-start event of wifi_start does the same.
C16_DisconnectAlwaysReconnects ==
    [][/\ (DisconnectDelivered /\ s_wifi_started /\ pc # "wifi_stop")
          => /\ wifi_call'.last.calls = <<"esp_wifi_connect">>
             /\ radio'.link = "connecting"
             /\ s_wifi_started'
       /\ (StaStartDelivered /\ pc # "wifi_stop"
           /\ (s_wifi_started \/ pc = "wifi_start_store"))
          => /\ wifi_call'.last.calls = <<"esp_wifi_connect">>
             /\ radio'.link = "connecting"]_vars

\* as many disconnects in a row as the specification follows have each been
\* answered by a connect attempt, the last one included
C16_Witness ==
    /\ wifi_call.streak = MaxDisconnects
    /\ wifi_call.last.op = "WIFI_EVENT_STA_DISCONNECTED"
    /\ wifi_call.last.calls = <<"esp_wifi_connect">>
    /\ s_wifi_started
    /\ radio.link = "connecting"
    /\ pc = "run"

\* a step in which wifi_stop is called
WifiStopCalled == pc = "run" /\ wifi_call'.last.op = "wifi_stop"

\* the step in which wifi_stop, called on a started manager, returns
WifiStopReturns == pc = "wifi_stop" /\ pc' = "run"

\* C17: wifi_stop on a stopped manager returns ESP_OK at once, makes no call
\* and changes nothing, so a second wifi_stop is a no-op; wifi_stop on a
\* started manager makes its five calls and returns with the started flag
\* false, the callback NULL and the interface handle released, whichever of
\* the five calls failed; it returns ESP_OK only if none did.
C17_StopAlwaysEndsStopped ==
    [][/\ (WifiStopCalled /\ ~s_wifi_started)
          => /\ pc' = "run"
             /\ wifi_call'.last.err = ESP_OK
             /\ wifi_call'.last.calls = <<>>
             /\ UNCHANGED <<s_wifi_started, s_wifi_on_ready_cb, s_wifi_netif, radio,
                            nvs>>
       /\ (WifiStopCalled /\ s_wifi_started) => pc' = "wifi_stop"
       /\ WifiStopReturns
          => /\ ~s_wifi_started'
             /\ s_wifi_on_ready_cb' = "NULL"
             /\ ~s_wifi_netif'
             /\ wifi_call.step = Len(StopCalls)
             /\ wifi_call'.result = ESP_OK => wifi_call.result = ESP_OK]_vars

\* wifi_stop has returned an error on a manager whose radio stop, handler
\* unregistrations and driver deinit all failed, and the manager is stopped
C17_Witness ==
    /\ wifi_call.last.op = "wifi_stop"
    /\ wifi_call.last.calls = StopCalls
    /\ wifi_call.last.err = ESP_FAIL
    /\ wifi_call.result = ESP_FAIL
    /\ pc = "run"
    /\ radio.driver = "started"
    /\ radio.handlers = {"WIFI_EVENT", "IP_EVENT"}
    /\ ~s_wifi_started
    /\ s_wifi_on_ready_cb = "NULL"
    /\ ~s_wifi_netif

\* C18: no failure of a call into the store during boot ends the boot: app_main
\* is never aborted, neither before the restart-counter protocol nor between
\* it and gpio_init, button_create and wifi_start.
C18_StoreFailureNeverAborts == pc # "abort"

\* C19: the authmode wifi_start hands to esp_wifi_set_config is WIFI_AUTH_OPEN
\* when the wifi_password key is absent or holds the empty string, and
\* WIFI_AUTH_WPA2_PSK when it holds any other string, of one character or of
\* more.
C19_AuthModeFollowsPassword ==
    radio.authmode # "none"
       => radio.authmode = IF K_PASS \notin nvs.keys \/ Len(stored_password) = 0
                           THEN "WIFI_AUTH_OPEN"
                           ELSE "WIFI_AUTH_WPA2_PSK"

\* wifi_start has configured the open mode for a stored password that is the
\* empty string
C19_Witness ==
    /\ radio.authmode = "WIFI_AUTH_OPEN"
    /\ K_PASS \in nvs.keys
    /\ stored_password = <<>>
    /\ wifi_call.last.op = "wifi_start"
    /\ s_wifi_started

\* the count a boot starts from when the store is read without a fault: the
\* larger of the two tiers
CountBeforeBoot ==
    IF U32Gt(DurableCount(nvs), s_post_reset_state.restart_count)
    THEN DurableCount(nvs)
    ELSE s_post_reset_state.restart_count

\* v is n + 1, for n below UINT32_MAX, digit by digit in base 65536
IsSuccessor(v, n) ==
    /\ v.lo = (n.lo + 1) % 65536
    /\ v.hi = n.hi + (IF n.lo = 65535 THEN 1 ELSE 0)
    /\ v.hi <= 65535

\* C20: the boot that starts from UINT32_MAX counts 1, the boot that starts
\* from any other n counts n + 1 within 32 bits, and no boot counts 0.
C20_IncrementWrapsToOne ==
    [][(pc = "log_post_reset" /\ pc' # pc)
         => /\ CountBeforeBoot = UINT32_MAX => report'.count = U32(1)
            /\ CountBeforeBoot # UINT32_MAX
                  => IsSuccessor(report'.count, CountBeforeBoot)
            /\ report'.count # U32(0)
            /\ s_post_reset_state'.restart_count = report'.count]_vars

\* a boot has counted 1 from a durable count of UINT32_MAX, which the failed
\* write of the new count has left in the store
C20_Witness ==
    /\ report.count = U32(1)
    /\ report.loaded = ESP_OK
    /\ report.saved # ESP_OK
    /\ K_RESTART \in nvs.keys
    /\ nvs.rc = UINT32_MAX
    /\ s_post_reset_state.restart_count = U32(1)
    /\ pc = "configure"

\* no call of relay_on_set is under way
NoRelaySetUnderWay == \A c \in RelayCallers : relay_set[c] = "idle"

\* C21: whenever no identify task is alive and no call of relay_on_set is
\* under way, the relay output and the blue LED output both equal relay_on.
C21_OutputsFollowRelayOn ==
    (identify_tasks = EmptyBag /\ NoRelaySetUnderWay)
       => /\ gpio.RELAY_GPIO = relay_on
          /\ gpio.BLUE_LED_GPIO = relay_on

\* an identify task reads relay_on: its first step
IdentifyStarts(task) ==
    /\ task.at = 0
    /\ BagCardinality(identify_tasks') = BagCardinality(identify_tasks)
    /\ \E started \in BagToSet(identify_tasks') :
          /\ started.at = 1
          /\ identify_tasks' = (identify_tasks (-) SetToBag({task}))
                                 (+) SetToBag({started})

\* an identify task makes one of the writes of its loops
IdentifyBlinks(task) ==
    /\ task.at \in 1..BlinkWrites
    /\ identify_tasks' = (identify_tasks (-) SetToBag({task}))
                           (+) SetToBag({[task EXCEPT !.at = @ + 1]})

\* an identify task makes its last write of the LED and is deleted
IdentifyEnds(task) ==
    /\ task.at > BlinkWrites
    /\ identify_tasks' = identify_tasks (-) SetToBag({task})

TriggerGivenBool(t) ==
    t.last.ch # "NULL" /\ t.last.format = "homekit_format_bool"

\* C23: the update sequence is started from the running application by the
\* trigger handler alone, and exactly when the handler was given a bool true
\* on a characteristic that is not NULL; given a bool it sets the value of the
\* characteristic to false and notifies before it starts the sequence; given
\* NULL or a value that is not a bool it makes no call and changes nothing;
\* the value of the characteristic is false whenever the handler is not
\* running.
C23_TriggerStartsUpdateOnTrue ==
    /\ ~ota_trigger.bool_value
    /\ (pc = "upd_flag")
          => /\ TriggerGivenBool(ota_trigger)
             /\ ota_trigger.last.value
             /\ seq.kind = "update"
             /\ ota_trigger.last.calls
                   = <<"homekit_characteristic_notify",
                       "lifecycle_request_update_and_reboot">>
    /\ (pc = "run" /\ ota_trigger.last.ch # "none")
          => /\ ~(TriggerGivenBool(ota_trigger) /\ ota_trigger.last.value)
             /\ seq = NoSeq
             /\ ota_trigger.last.calls
                   = IF TriggerGivenBool(ota_trigger)
                     THEN <<"homekit_characteristic_notify">> ELSE <<>>

\* the handler was given true and the update sequence it started has reached
\* its reboot with the value of the characteristic false
C23_Witness ==
    /\ pc = "restarting"
    /\ seq.kind = "update"
    /\ ota_trigger.last.value
    /\ TriggerGivenBool(ota_trigger)
    /\ ~ota_trigger.bool_value

\* C24 as stated: the boot takes the RTC count as its starting value only when
\* the magic in RTC memory is k_post_reset_magic and that count is larger than
\* the one read from NVS; with another magic it starts from the count read
\* from NVS, even when the RTC count is larger.
C24_MagicGuardsCount ==
    [][pc = "log_post_reset" /\ report'.loaded = ESP_OK =>
          LET n == s_post_reset_state.restart_count
              m == DurableCount(nvs)
              valid == s_post_reset_state.magic = k_post_reset_magic
          IN report'.count = U32Inc(IF valid /\ U32Gt(n, m) THEN n ELSE m)]_vars

\* C24, amended: the boot takes the RTC count as its starting value whenever
\* that count is larger than the one read from NVS, with the magic
\* k_post_reset_magic in RTC memory and with any other magic alike; the magic
\* guards the reason only.
C24_CountIgnoresMagic ==
    [][pc = "log_post_reset" /\ report'.loaded = ESP_OK =>
          LET n == s_post_reset_state.restart_count
              m == DurableCount(nvs)
              valid == s_post_reset_state.magic = k_post_reset_magic
          IN /\ ~valid /\ U32Gt(n, m) => report'.count = U32Inc(n)
             /\ valid /\ U32Gt(n, m) => report'.count = U32Inc(n)
             /\ ~U32Gt(n, m) => report'.count = U32Inc(m)
             /\ pc' = "configure" =>
                   report'.reason = IF valid THEN s_post_reset_state.reason
                                    ELSE LIFECYCLE_POST_RESET_NONE]_vars

\* C24: the second boot found no magic in RTC memory (it reports no reason),
\* the count 1 there and no count in NVS, and counted 2
C24_Witness ==
    /\ obs.boots = 2
    /\ pc = "configure"
    /\ report.read
    /\ report.reason = LIFECYCLE_POST_RESET_NONE
    /\ report.loaded = ESP_OK
    /\ report.saved # ESP_OK
    /\ report.count = U32(2)
    /\ DurableCount(nvs) = U32(0)

\* C25 as stated: of two boots in a row that report a count, with no firing of
\* the timer and no factory reset between them, the later reports a larger
\* count than the earlier, whatever reset lies between and whatever write to
\* NVS failed.
C25_CountGrows ==
    [][pc = "log_post_reset" /\ obs.prev.count # U32(0)
          /\ obs.tfire = "none" /\ ~obs.prev.factory
       => U32Gt(report'.count, obs.prev.count)]_vars

\* C25, amended: of two boots in a row that report a count, with no firing of
\* the timer and no factory reset between them, the later reports a larger
\* count than the earlier when RTC memory was kept between them, or when the
\* earlier boot's write to NVS succeeded, the store still holds the count and
\* the later boot's read succeeds.
C25_CountGrowsWhenKept ==
    [][pc = "log_post_reset" /\ obs.prev.count # U32(0)
          /\ obs.tfire = "none" /\ ~obs.prev.factory
          /\ \/ ~obs.prev.cold
             \/ obs.prev.saved /\ K_RESTART \in nvs.keys /\ report'.loaded = ESP_OK
       => U32Gt(report'.count, obs.prev.count)]_vars

\* C25: the boot after a power cycle read the count 1 of the boot before from
\* NVS and reports 2, and its own write failed
C25_Witness ==
    /\ pc = "configure"
    /\ obs.prev.cold
    /\ obs.prev.saved
    /\ obs.prev.count = U32(1)
    /\ obs.tfire = "none"
    /\ report.loaded = ESP_OK
    /\ report.saved # ESP_OK
    /\ report.count = U32(2)

\* C26 as stated: a boot reports no reason or the reason that the sequence
\* of the session right before it marked; a reason marked in an earlier
\* session is never reported, also when the boot in between took the
\* crash-loop path and its factory reset could not select the factory slot.
C26_ReasonIsOfLastReboot ==
    [][pc = "log_post_reset" /\ pc' = "configure"
       => report'.reason \in {LIFECYCLE_POST_RESET_NONE, obs.prev.marked}]_vars

\* C27: the boot protocol runs once per boot; in its one step the count is
\* incremented, kept in RTC memory and written to NVS and the timer is armed,
\* then the count is compared with the threshold: at 10 or more the boot goes
\* to the countdown with the reason neither read nor cleared, below 10 it
\* reads the reason. The factory reset starts from the boot exactly after
\* that countdown, so exactly when the incremented count is at least 10.
C27_ThresholdCheckedOncePerBoot ==
    /\ [][pc = "log_post_reset" /\ pc' # pc
          => LET n == s_post_reset_state.restart_count
                 m == DurableCount(nvs)
                 count == report'.count
             IN /\ count = U32Inc(IF report'.loaded = ESP_OK /\ U32Gt(m, n) THEN m ELSE n)
                /\ s_post_reset_state'.restart_count = count
                /\ report'.saved = ESP_OK => DurableCount(nvs') = count
                /\ s_restart_counter_timer' = "armed"
                /\ pc' = "countdown" <=> U32Ge(count, U32(10))
                /\ pc' = "configure" <=> ~U32Ge(count, U32(10))
                /\ pc' = "countdown"
                      => /\ ~report'.read
                         /\ s_post_reset_state'.magic = s_post_reset_state.magic
                         /\ s_post_reset_state'.reason = s_post_reset_state.reason
                /\ pc' = "configure" => report'.read]_vars
    /\ [][report.count # U32(0) => report' = report /\ pc' # "log_post_reset"]_vars
    /\ [][seq.kind = "none" /\ seq'.kind # "none"
          => /\ pc = "countdown"
             /\ cd < 0
             /\ seq'.kind = "factory"
             /\ U32Ge(report.count, U32(10))]_vars
    /\ [](pc = "countdown" => U32Ge(report.count, U32(10)) /\ ENABLED CrashLoopSteps)

\* C27: the boot that counted 10 has armed the timer, has not read the reason
\* and has started the factory reset
C27_Witness ==
    /\ pc = "fr_reset_counter"
    /\ seq.auto
    /\ report.count = U32(10)
    /\ ~report.read
    /\ s_restart_counter_timer = "armed"

\* the log lines "Factory reset in i" written so far, each followed by its
\* delay of 1 s
CountdownStepsDone == CountdownFrom - cd

\* the debounce timer expires in this step
TimerFires == s_restart_counter_timer = "armed" /\ s_restart_counter_timer' = "idle"

\* C28 as stated: before the automatic factory reset the boot protocol logs
\* exactly 10 countdown steps, each followed by a delay of 1 s; the factory
\* reset never starts before the countdown has completed; and until the
\* countdown ends the restart count is the one the boot reported, not cleared.
C28_CountdownOfTenKeepsCount ==
    /\ [][pc = "countdown" /\ pc' # pc
          => /\ CountdownStepsDone = 10
             /\ pc' = "fr_reset_counter"
             /\ seq'.auto]_vars
    /\ [](pc = "countdown" => CountdownStepsDone <= 10)
    /\ [](pc = "countdown" => s_post_reset_state.restart_count = report.count)

\* C28, amended: the boot protocol logs exactly 11 countdown steps, from 10
\* down to 0, each followed by a delay of 1 s; the factory reset never starts
\* before the countdown has completed; until the countdown ends the boot
\* protocol itself does not clear the restart count, and the count is the one
\* the boot reported unless the debounce timer, armed before the countdown,
\* has fired and cleared it.
C28_CountdownOfElevenUnlessTimer ==
    /\ [][pc = "countdown" /\ pc' # pc
          => /\ CountdownStepsDone = 11
             /\ pc' = "fr_reset_counter"
             /\ seq'.auto]_vars
    /\ [](pc = "countdown" => CountdownStepsDone <= 11 /\ seq.kind = "none"
                                 /\ ENABLED CrashLoopSteps)
    /\ [][pc = "countdown" /\ pc' = pc /\ cd' # cd
          => cd' = cd - 1 /\ s_post_reset_state' = s_post_reset_state /\ nvs' = nvs]_vars
    /\ [][pc = "countdown" /\ pc' = pc
             /\ s_post_reset_state'.restart_count # s_post_reset_state.restart_count
          => TimerFires /\ s_post_reset_state'.restart_count = U32(0)]_vars
    /\ [](pc = "countdown" /\ obs.tfire = "none"
             => s_post_reset_state.restart_count = report.count)

\* C28: the countdown has run to its end, the timer fired on the way and
\* cleared the count, and the factory reset has started
C28_Witness ==
    /\ pc = "fr_reset_counter"
    /\ seq.auto
    /\ cd = -1
    /\ obs.tfire = "ok"
    /\ report.count = U32(10)

\* the slot the bootloader starts at the next reset: the one otadata records,
\* or, with otadata erased, the factory slot when the table has one and the
\* first OTA slot otherwise
NextBootSlot(pt) ==
    IF "otadata" \notin pt.erased THEN pt.boot
    ELSE IF pt.factory THEN "factory"
    ELSE "ota_0"

\* C29 as stated: once the factory reset has erased an OTA slot, from then on
\* and at its reboot the slot that boots next is the factory slot, whatever
\* step failed.
C29_ErasedSlotNeverBoots ==
    seq.kind = "factory" /\ parts.erased \cap parts.ota # {}
       => NextBootSlot(parts) = "factory"

\* the steps the sequence took in this step of the main task
StepsTaken == SubSeq(seq'.steps, Len(seq.steps) + 1, Len(seq'.steps))

\* C30: every run of the common shutdown makes, in this order, the stop of
\* HomeKit and the wait for its clients, the stop of mDNS, the reset of the
\* pairing store when and only when the caller asks for it, the call of the
\* provisioning hook when one is linked, and wifi_stop; whatever
\* mdns_service_remove returns and whichever calls of wifi_stop fail, every
\* step is made, the manager ends stopped and the sequence goes on.
C30_ShutdownRunsEveryStep ==
    [][(pc \in {"upd_shutdown", "hk_shutdown", "fr_shutdown"}) /\ pc' # pc
       => /\ StepsTaken
               = <<"stop_homekit", "wait_hap_clients", "stop_mdns">>
                 \o (IF pc = "hk_shutdown" THEN <<"reset_homekit_store">> ELSE <<>>)
                 \o (IF shutdown'.hook THEN <<"stop_provisioning">> ELSE <<>>)
                 \o <<"stop_wifi">>
          /\ hk_resets' = hk_resets + (IF pc = "hk_shutdown" THEN 1 ELSE 0)
          /\ ~s_wifi_started'
          /\ s_wifi_on_ready_cb' = "NULL"
          /\ pc' = (IF pc = "upd_shutdown" THEN "upd_delay"
                    ELSE IF pc = "hk_shutdown" THEN "hk_delay" ELSE "fr_erase_wifi")
          /\ shutdown'.warned \subseteq {"stop_mdns", "stop_wifi"}]_vars

\* C30: a HomeKit reset in a build without the hook, in which
\* mdns_service_remove and wifi_stop both failed, has reset the pairing store,
\* stopped the manager and gone on
C30_Witness ==
    /\ pc = "hk_delay"
    /\ ~shutdown.hook
    /\ shutdown.mdns_err = ESP_FAIL
    /\ shutdown.stop_err # ESP_OK
    /\ shutdown.warned = {"stop_mdns", "stop_wifi"}
    /\ hk_resets = 1
    /\ ~s_wifi_started
    /\ seq.steps[Len(seq.steps)] = "stop_wifi"

\* the error wifi_stop owes its caller for the codes its calls returned: that
\* of the first call whose code is not passed over, ESP_OK if there is none
FirstFailure(rets) ==
    LET failed == {i \in DOMAIN rets : StopFails(StopCalls[i], rets[i])} IN
    IF failed = {} THEN ESP_OK
    ELSE rets[CHOOSE i \in failed : \A j \in failed : i <= j]

\* C31: wifi_stop on a started manager returns ESP_OK if and only if none of
\* its calls returned an error it does not pass over, and otherwise the error
\* of the first such call among disconnect, radio stop, the two handler
\* unregistrations and driver deinit; a later failure never replaces it.
C31_StopReturnsFirstFailure ==
    (wifi_call.last.op = "wifi_stop" /\ wifi_call.last.started)
    => /\ wifi_call.result = FirstFailure(wifi_call.last.rets)
       /\ wifi_call.last.err = wifi_call.result
       /\ pc = "run" => Len(wifi_call.last.rets) = Len(StopCalls)
       /\ pc = "wifi_stop" => Len(wifi_call.last.rets) = wifi_call.step - 1

\* wifi_stop has returned the error of its radio stop: the disconnect before
\* it and an unregistration after it returned codes that are passed over, the
\* two calls after that failed with other errors
C31_Witness ==
    /\ pc = "run"
    /\ wifi_call.last.op = "wifi_stop"
    /\ wifi_call.last.started
    /\ wifi_call.last.rets = <<ESP_ERR_WIFI_NOT_STARTED, ESP_ERR_WIFI_NOT_STARTED,
                               ESP_ERR_INVALID_STATE, ESP_FAIL, ESP_ERR_NO_MEM>>
    /\ wifi_call.result = ESP_ERR_WIFI_NOT_STARTED
    /\ ~s_wifi_started

\* a tier of the restart counter goes from another value to 0
CounterZeroed ==
    \/ /\ s_post_reset_state.restart_count # U32(0)
       /\ s_post_reset_state'.restart_count = U32(0)
    \/ DurableCount(nvs) # U32(0) /\ DurableCount(nvs') = U32(0)

\* C32: the steps of update-and-reboot and of identity-reset-and-reboot leave
\* the restart counter as it is in RTC memory and in NVS; a tier of the counter
\* goes to 0 only in a step of the factory reset, in the step of the boot
\* protocol that starts the factory reset, or in the timer callback; and
\* the boot after an update or identity reset during which the timer has not
\* fired reports one more than the boot before it.
C32_DeliberateRebootIsCounted ==
    /\ [][/\ (seq.kind \in {"update", "homekit"} /\ pc \in SequencePcs /\ ~TimerFires)
             => /\ s_post_reset_state'.restart_count = s_post_reset_state.restart_count
                /\ (K_RESTART \in nvs'.keys) = (K_RESTART \in nvs.keys)
                /\ nvs'.rc = nvs.rc
          /\ CounterZeroed
             => \/ TimerFires
                \/ seq.kind = "factory" /\ pc \in SequencePcs
                \/ pc = "countdown" /\ pc' = "fr_reset_counter"]_vars
    /\ [](JustBooted /\ obs.prev.kind \in {"update", "homekit"}
                     /\ obs.prev.tfire = "none"
          => report.count = U32Inc(obs.prev.count))

\* the third boot in a row: the first was ended by an identity reset or an
\* update, the second, which reported 2, by an update during which the timer
\* did not fire, and this boot reports 3
C32_Witness ==
    /\ pc = "configure"
    /\ obs.boots = 3
    /\ obs.prev.kind = "update"
    /\ obs.prev.tfire = "none"
    /\ obs.prev.count = U32(2)
    /\ report.count = U32(3)
    /\ s_post_reset_state.restart_count = U32(3)
    /\ DurableCount(nvs) = U32(3)

\* the timer of this session was not armed by the boot protocol: it was not
\* created, or created and not started
TimerFailed ==
    /\ pc \notin {"app_main", "log_post_reset"}
    /\ s_restart_counter_timer # "armed"
    /\ obs.tfire = "none"

\* the boot before the last reset did not arm its timer
PrevTimerFailed ==
    obs.kind # "none" /\ obs.prev.timer # "armed" /\ obs.prev.tfire = "none"

\* C33 as stated: when the timer cannot be created or started, the boot
\* protocol still goes on to the threshold check and the reason report, no step
\* of that session clears the restart counter, and the next boot counts one
\* higher.
C33_TimerFailureKeepsCount ==
    /\ [][/\ (pc = "log_post_reset" /\ s_restart_counter_timer' # "armed")
             => report'.read
          /\ (TimerFailed /\ pc' # "app_main") => ~CounterZeroed]_vars
    /\ [](JustBooted /\ PrevTimerFailed => report.count = U32Inc(obs.prev.count))

\* C33, amended: when the timer cannot be created or started, the boot protocol
\* still goes on to the threshold check and, below the threshold, to the reason
\* report; the timer callback does not run in that session, whose steps clear
\* the restart counter only in a factory reset; and after a session without a
\* factory reset the next boot counts one higher when the reset kept RTC memory
\* or the count had been written to NVS.
C33_TimerFailureLeavesCountToFactoryReset ==
    /\ [][/\ (pc = "log_post_reset" /\ s_restart_counter_timer' # "armed")
             => /\ pc' = IF CrashLoopDetected(report'.count) THEN "countdown"
                         ELSE "configure"
                /\ report'.read = ~CrashLoopDetected(report'.count)
                /\ report'.count = s_post_reset_state'.restart_count
          /\ TimerFailed => ~TimerFires
          /\ (TimerFailed /\ pc' # "app_main" /\ CounterZeroed)
             => \/ seq.kind = "factory" /\ pc \in SequencePcs
                \/ pc = "countdown" /\ pc' = "fr_reset_counter"]_vars
    /\ [](JustBooted /\ PrevTimerFailed /\ ~obs.prev.factory
                     /\ (~obs.prev.cold \/ obs.prev.saved)
          => report.count = U32Inc(obs.prev.count))

\* the second boot, after a loss of power: the first could not create its timer
\* and wrote the count 1 to NVS, and this boot reports 2
C33_Witness ==
    /\ pc = "configure"
    /\ obs.kind = "cold"
    /\ obs.prev.timer = "null"
    /\ obs.prev.tfire = "none"
    /\ obs.prev.saved
    /\ ~obs.prev.factory
    /\ obs.prev.count = U32(1)
    /\ report.count = U32(2)
    /\ report.read

\* what the claim says the reading of the reason returns for RTC memory `rtc`
DecodedReason(rtc) ==
    IF rtc.magic # k_post_reset_magic THEN LIFECYCLE_POST_RESET_NONE
    ELSE IF rtc.reason \notin 0..3 THEN LIFECYCLE_POST_RESET_NONE
    ELSE rtc.reason

\* C34: lifecycle_peek_post_reset_reason returns NONE whenever the validity tag
\* is not the constant, whatever the reason word holds, and whenever the tag
\* matches and the word is outside 0..3; otherwise it returns the stored code
\* (1 IDENTITY_RESET, 2 FACTORY_RESET, 3 UPDATE); this is what the boot
\* protocol reports, whether the enumeration is signed or not.
C34_PeekDecodesTaggedCodes ==
    /\ [](\A enum_signed \in BOOLEAN :
             lifecycle_peek_post_reset_reason_in(s_post_reset_state, enum_signed)
                = DecodedReason(s_post_reset_state))
    /\ [][(pc = "log_post_reset" /\ pc' = "configure")
          => report'.reason = DecodedReason(s_post_reset_state)]_vars
    /\ [](LIFECYCLE_POST_RESET_REASON_HOMEKIT = 1 /\ LIFECYCLE_POST_RESET_REASON_FACTORY = 2
          /\ LIFECYCLE_POST_RESET_REASON_UPDATE = 3 /\ LIFECYCLE_POST_RESET_NONE = 0)

\* a first boot has reported UPDATE, which it does for the tagged word 3 alone,
\* and has cleared the tag
C34_Witness ==
    /\ pc = "configure"
    /\ report.read
    /\ report.reason = LIFECYCLE_POST_RESET_REASON_UPDATE
    /\ report.count = U32(1)
    /\ s_post_reset_state.magic = U32(0)

\* a step in which the application calls lifecycle_init_firmware_revision with a
\* null revision or a null fallback, or lifecycle_configure_homekit with a null
\* revision
NullArgumentCall ==
    /\ firmware'.made = firmware.made + 1
    /\ \/ firmware'.last.revision = "NULL"
       \/ /\ firmware'.last.op = "lifecycle_init_firmware_revision"
          /\ firmware'.last.fallback_version = "NULL"

\* C35: lifecycle_init_firmware_revision with a null revision or a null
\* fallback, and lifecycle_configure_homekit with a null revision, return
\* ESP_ERR_INVALID_ARG and touch neither the store nor the cached revision nor
\* the revision characteristic nor the OTA trigger characteristic.
C35_NullArgumentsAreRejected ==
    [][NullArgumentCall
       => /\ firmware'.last.err = ESP_ERR_INVALID_ARG
          /\ nvs' = nvs
          /\ s_nvs_initialized' = s_nvs_initialized
          /\ firmware'.s_fw_revision_initialized = firmware.s_fw_revision_initialized
          /\ firmware'.s_fw_revision = firmware.s_fw_revision
          /\ firmware'.revision = firmware.revision
          /\ ota_trigger' = ota_trigger]_vars

\* before app_main has configured the accessory, lifecycle_configure_homekit was
\* called with a null revision and the OTA trigger: it returned
\* ESP_ERR_INVALID_ARG, the revision is not cached, the store holds no
\* installed_ver and the trigger has no setter
C35_Witness ==
    /\ pc = "configure"
    /\ firmware.made = 1
    /\ firmware.last.op = "lifecycle_configure_homekit"
    /\ firmware.last.revision = "NULL"
    /\ firmware.last.ota_trigger = "ota_trigger"
    /\ firmware.last.err = ESP_ERR_INVALID_ARG
    /\ ~firmware.s_fw_revision_initialized
    /\ firmware.s_fw_revision = ""
    /\ K_FWVER \notin nvs.keys
    /\ ota_trigger.setter_ex = "NULL"

\* C36: a wifi_start that returns an error leaves the manager as it was before
\* the call: not started, the callback, the interface handle, the registered
\* handlers and the driver unchanged, so that a manager on which nothing was
\* initialised before a failed wifi_start has nothing initialised after it.
C36_FailedStartLeavesManagerAsItWas ==
    [][(WifiStartCalled /\ ~s_wifi_started /\ wifi_call'.last.err # ESP_OK)
         => /\ ~s_wifi_started'
            /\ UNCHANGED <<s_wifi_on_ready_cb, s_wifi_netif, radio>>
            /\ (radio = NoRadio /\ ~s_wifi_netif)
                  => (radio'.handlers = {} /\ radio'.driver = "none" /\ ~s_wifi_netif')]_vars

\* C37: once the factory reset has erased NVS (erase_nvs_partition succeeded),
\* nothing initialises NVS or writes to it before the reboot: through the delay
\* and at the call of esp_restart the store is empty, holds no restart_count
\* key and is not initialised, also when the debounce timer expires during
\* the sequence.
C37_NothingWritesAfterTheErase ==
    (seq.kind = "factory" /\ pc \in {"fr_delay", "fr_reboot", "restarting"}) =>
       /\ K_RESTART \notin nvs.keys
       /\ nvs = EmptyStore
       /\ ~s_nvs_initialized

\* C38: after wifi_stop has returned and until the next call of wifi_start no
\* delivered event makes the handler call esp_wifi_connect or the
\* ready-callback, whichever calls of wifi_stop failed.
C38_NothingRunsAfterStop ==
    [][(wifi_call.stopped /\ pc = "run" /\ wifi_call'.last.op \in WifiEvents)
         => wifi_call'.last.calls = <<>>]_vars

\* C39: homekit_server_init is called at most once per boot, and only by the
\* ready-callback of an address-acquired event, however many times the
\* callback runs: the first on_wifi_ready of a boot makes the call, with the
\* link up, and every later one returns without it.
C39_ServerStartsOncePerBoot ==
    /\ [](server.inits <= 1 /\ (server.inits = 1 <=> server.homekit_started))
    /\ [][/\ server'.inits > server.inits
             => /\ wifi_call'.last.op = "IP_EVENT_STA_GOT_IP"
                /\ wifi_call'.last.calls = <<"on_wifi_ready">>
                /\ radio'.link = "up"
                /\ server.inits = 0
          /\ (wifi_call'.last.ready # "none" /\ server.homekit_started)
             => UNCHANGED server]_vars

\* the callback has run again after a reconnect and has left the one server
\* of this boot alone
C39_Witness ==
    /\ wifi_call.last.op = "IP_EVENT_STA_GOT_IP"
    /\ wifi_call.last.calls = <<"on_wifi_ready">>
    /\ wifi_call.last.ready = "skip"
    /\ server.inits = 1
    /\ radio.link = "up"

\* ---- the four operations on s_post_reset_state, each on its own

\* the words a reset may leave in the reason field when no reason is marked
UnmarkedReasonWords ==
    ReasonWords \ {LIFECYCLE_POST_RESET_REASON_HOMEKIT, LIFECYCLE_POST_RESET_REASON_FACTORY,
                   LIFECYCLE_POST_RESET_REASON_UPDATE}

\* any tag, any unmarked reason word, a count at either end of its range
InitScratch ==
    \E magic \in MagicWords, reason \in UnmarkedReasonWords,
       n \in {U32(0), U32(1), [hi |-> 65535, lo |-> 65534], UINT32_MAX} :
       AtReset([magic |-> magic, reason |-> reason, restart_count |-> n],
               [keys |-> {K_SSID, K_PASS}, rc |-> U32(0)])

ScratchMark ==
    /\ \E reason \in {LIFECYCLE_POST_RESET_REASON_HOMEKIT,
                      LIFECYCLE_POST_RESET_REASON_FACTORY,
                      LIFECYCLE_POST_RESET_REASON_UPDATE} :
          s_post_reset_state' = lifecycle_mark_post_reset(s_post_reset_state, reason)
    /\ UNCHANGED <<nvs, s_nvs_initialized, s_restart_counter_timer, s_wifi_started, pc, cd,
                   seq, report, parts, hk_resets, obs, wifi_rest, plug>>

ScratchClear ==
    /\ s_post_reset_state' = lifecycle_clear_post_reset_state(s_post_reset_state)
    /\ UNCHANGED <<nvs, s_nvs_initialized, s_restart_counter_timer, s_wifi_started, pc, cd,
                   seq, report, parts, hk_resets, obs, wifi_rest, plug>>

ScratchIncrement ==
    /\ \/ s_post_reset_state.restart_count.hi # 0
       \/ s_post_reset_state.restart_count.lo < MaxScratchCount
    /\ s_post_reset_state' = lifecycle_increment_restart_counter(s_post_reset_state)
    /\ UNCHANGED <<nvs, s_nvs_initialized, s_restart_counter_timer, s_wifi_started, pc, cd,
                   seq, report, parts, hk_resets, obs, wifi_rest, plug>>

ScratchReset ==
    /\ \E fi \in InitInputs(s_nvs_initialized), fs \in SaveFaults :
          LET r == lifecycle_reset_restart_counter(s_post_reset_state,
                                                   s_nvs_initialized, nvs, fi, fs) IN
          /\ s_post_reset_state' = r.rtc
          /\ nvs' = r.store
          /\ s_nvs_initialized' = r.inited
    /\ UNCHANGED <<s_restart_counter_timer, s_wifi_started, pc, cd, seq, report, parts,
                   hk_resets, obs, wifi_rest, plug>>

NextScratch == ScratchMark \/ ScratchClear \/ ScratchIncrement \/ ScratchReset

SpecScratch == InitScratch /\ [][NextScratch]_vars

\* C40: lifecycle_mark_post_reset and lifecycle_clear_post_reset_state never
\* change restart_count; lifecycle_increment_restart_counter and
\* lifecycle_reset_restart_counter never change the validity tag or the reason
\* word.
C40_ScratchPartsAreIndependent ==
    [][/\ (ScratchMark \/ ScratchClear)
          => s_post_reset_state'.restart_count = s_post_reset_state.restart_count
       /\ (ScratchIncrement \/ ScratchReset)
          => /\ s_post_reset_state'.magic = s_post_reset_state.magic
             /\ s_post_reset_state'.reason = s_post_reset_state.reason]_vars

\* a reason was marked, the count was reset, written to NVS and incremented
\* twice: both parts hold what their own operations left
C40_Witness ==
    /\ s_post_reset_state.magic = k_post_reset_magic
    /\ s_post_reset_state.reason = LIFECYCLE_POST_RESET_REASON_FACTORY
    /\ s_post_reset_state.restart_count = U32(2)
    /\ K_RESTART \in nvs.keys
    /\ nvs.rc = U32(0)

====
